---------------------------- MODULE Spec2Model ----------------------------
(***************************************************************************)
(* Model of the hybrid ranking engine of guptaskrxl/qdrant_project:        *)
(*   src/hybrid_search.py         HybridSearchSystem   (the weighted       *)
(*                                reciprocal-rank engine)                   *)
(*   src/hybrid_search_latest.py  EnhancedHybridSearch, FuzzySearchEnhancer *)
(*   src/populate_neo4j_latest.py Neo4jProductLoader (term-list generator)  *)
(*                                                                         *)
(* Strings are sequences of one-character strings, so that upper(),        *)
(* lower(), replace(), split() and the regular expressions of the source   *)
(* are computed character by character.  Scores are exact rationals.       *)
(***************************************************************************)
EXTENDS Integers, Sequences, FiniteSets, TLC

VARIABLES
    mode,       \* which part of the program the behaviour exercises
    pc,         \* how far the operation under way has got
    query,      \* the query string handed to the operation
    analysis,   \* the dict returned by analyze_query (once pc says so)
    weights,    \* <<neo4j_weight, qdrant_weight>> in tenths (once pc says so)
    terms,      \* the set of strings a term generator returned
    rawScores,  \* the scores_dict handed to normalize_scores: key -> score
    normScores, \* the normalized_score it attached to every item
    graph,      \* the graph store: what it holds about each product for the query
    points,     \* the vector store: the nearest neighbours of the query
    engine,     \* the engine that was constructed: "hybrid_search" or
                \* "enhanced_hybrid_search", after its search operation
    JELLYFISH_AVAILABLE,  \* whether the process could import jellyfish
    limit,      \* the requested limit
    neo4j_results,   \* what the lexical retriever handed to the fusion
    qdrant_results,  \* what the semantic retriever handed to the fusion
    result,     \* the list the search returned
    outcome,    \* "returned" or "raised", once a search has ended
    previous,   \* the first search of the engine, once a later one has run
    fusion,     \* two candidates' scores, before and after they are fused
    faults,     \* which calls of the search under way fail, and where
    calls,      \* the collaborators the last search invoked
    indexes,    \* the graph store: the names of its indexes
    compared,   \* the two strings handed to fuzzy_similarity
    similarity, \* what fuzzy_similarity returned for them
    issued      \* the full-text queries the full-text step under way has run

analysisVars  == <<analysis, weights>>
codeVars      == <<terms>>
normalizeVars == <<rawScores, normScores>>
storeVars     == <<graph, points, indexes>>
engineVars    == <<engine, JELLYFISH_AVAILABLE>>
searchVars    == <<limit, neo4j_results, qdrant_results, result, outcome, previous,
                   faults, calls>>
fusionVars    == <<fusion>>
fuzzyVars     == <<compared, similarity>>
fulltextVars  == <<issued>>

vars == <<mode, pc, query, analysis, weights, terms, rawScores, normScores,
          graph, points, engine, JELLYFISH_AVAILABLE, limit, neo4j_results, qdrant_results,
          result, outcome, previous, fusion, faults, calls, indexes,
          compared, similarity, issued>>

---------------------------------------------------------------------------
(* The indexes of the graph store and the failures of one search           *)

\* the indexes Neo4jProductLoader._create_schema_and_indexes leaves behind
SearchIndexes ==
    {"product_search", "product_name_index", "product_search_terms_index",
     "attribute_key_index", "attribute_value_index"}

MaxProcessed == 1    \* a failing query raises after 0 .. MaxProcessed records

\* whether a Cypher query raises, and how many of its records the loop over
\* the result has handled by then (0: session.run itself raised)
NoFailure == [fails |-> FALSE, after |-> 0]

Failures == {NoFailure} \cup [fails : {TRUE}, after : 0..MaxProcessed]

\* the failures of one search: model.encode, qdrant_client.search and the
\* three try blocks of the lexical retriever
FaultSets ==
    [encode : BOOLEAN, lookup : BOOLEAN,
     precomputed : Failures, fulltext : Failures, attribute : Failures]

NoFaults ==
    [encode |-> FALSE, lookup |-> FALSE,
     precomputed |-> NoFailure, fulltext |-> NoFailure, attribute |-> NoFailure]

---------------------------------------------------------------------------
(* Characters and strings                                                  *)

LowerLetters ==
    <<"a","b","c","d","e","f","g","h","i","j","k","l","m",
      "n","o","p","q","r","s","t","u","v","w","x","y","z">>

UpperLetters ==
    <<"A","B","C","D","E","F","G","H","I","J","K","L","M",
      "N","O","P","Q","R","S","T","U","V","W","X","Y","Z">>

Digits == {"0","1","2","3","4","5","6","7","8","9"}

LowerSet == {LowerLetters[i] : i \in 1..26}
UpperSet == {UpperLetters[i] : i \in 1..26}

IsLower(c) == c \in LowerSet
IsUpper(c) == c \in UpperSet
IsDigit(c) == c \in Digits
IsSpace(c) == c = " "

\* str.upper() / str.lower() on one character
ToUpper == [c \in LowerSet |-> UpperLetters[CHOOSE i \in 1..26 : LowerLetters[i] = c]]
ToLower == [c \in UpperSet |-> LowerLetters[CHOOSE i \in 1..26 : UpperLetters[i] = c]]

UpperChar(c) == IF IsLower(c) THEN ToUpper[c] ELSE c
LowerChar(c) == IF IsUpper(c) THEN ToLower[c] ELSE c

Upper(s) == [i \in 1..Len(s) |-> UpperChar(s[i])]
Lower(s) == [i \in 1..Len(s) |-> LowerChar(s[i])]

\* needle in haystack (Python's `in` on strings)
Contains(hay, needle) ==
    \E i \in 0..(Len(hay) - Len(needle)) :
        \A k \in 1..Len(needle) : hay[i + k] = needle[k]

\* len(s.split()): the number of maximal runs of non-whitespace characters
TokenCount(s) ==
    Cardinality({i \in 1..Len(s) :
                    /\ ~IsSpace(s[i])
                    /\ (i = 1 \/ IsSpace(s[i - 1]))})

\* s is empty: the test without the strip()
IsBlank_EmptyOnly(s) == s = <<>>

\* s.strip() is empty
IsBlank(s) == \A i \in 1..Len(s) : IsSpace(s[i])

\* s.strip()
Strip(s) ==
    IF IsBlank(s) THEN <<>>
    ELSE LET first == CHOOSE i \in 1..Len(s) :
                          ~IsSpace(s[i]) /\ \A k \in 1..(i - 1) : IsSpace(s[k])
             last  == CHOOSE j \in 1..Len(s) :
                          ~IsSpace(s[j]) /\ \A k \in (j + 1)..Len(s) : IsSpace(s[k])
         IN  SubSeq(s, first, last)

\* s.replace(c, r) for a single character c and a string r
RECURSIVE Replace(_, _, _)
Replace(s, c, r) ==
    IF Len(s) = 0 THEN <<>>
    ELSE (IF s[1] = c THEN r ELSE <<s[1]>>) \o Replace(Tail(s), c, r)

\* s.split(c) for a single character c: the pieces between the c's, empty
\* pieces included
RECURSIVE SplitChar(_, _)
SplitChar(s, c) ==
    IF \A i \in 1..Len(s) : s[i] # c THEN <<s>>
    ELSE LET i == CHOOSE k \in 1..Len(s) :
                      s[k] = c /\ \A m \in 1..(k - 1) : s[m] # c
         IN  <<SubSeq(s, 1, i - 1)>> \o SplitChar(SubSeq(s, i + 1, Len(s)), c)

\* sep.join(ps)
RECURSIVE JoinWith(_, _)
JoinWith(ps, sep) ==
    IF Len(ps) = 0 THEN <<>>
    ELSE IF Len(ps) = 1 THEN ps[1]
    ELSE ps[1] \o sep \o JoinWith(Tail(ps), sep)

\* the character class [\s\-_,;:.()] of the word splitter
IsSeparator(c) == c \in {" ", "-", "_", ",", ";", ":", ".", "(", ")"}

\* the non-empty pieces of re.split(r'[\s\-_,;:.()]+', s)
SplitWords(s) ==
    { SubSeq(s, i, j) : <<i, j>> \in
        { ij \in (1..Len(s)) \X (1..Len(s)) :
            /\ ij[1] <= ij[2]
            /\ \A k \in ij[1]..ij[2] : ~IsSeparator(s[k])
            /\ (ij[1] = 1 \/ IsSeparator(s[ij[1] - 1]))
            /\ (ij[2] = Len(s) \/ IsSeparator(s[ij[2] + 1])) } }

---------------------------------------------------------------------------
(* Regular expressions of analyze_query, on the upper-cased query          *)

\* [A-Z0-9]
IsCodeChar(c) == IsUpper(c) \/ IsDigit(c)
\* \w of the re module (for \b)
IsWordChar(c) == IsUpper(c) \/ IsLower(c) \/ IsDigit(c) \/ c = "_"

\* \b between s[p-1] and s[p]  (p ranges over 1..Len(s)+1)
WordBoundary(s, p) ==
    LET before == p > 1 /\ IsWordChar(s[p - 1])
        after  == p <= Len(s) /\ IsWordChar(s[p])
    IN  before # after

\* s[i..j] is one or more [A-Z0-9]
CodeRun(s, i, j) == i <= j /\ \A k \in i..j : IsCodeChar(s[k])

\* s[i..j] matches [A-Z0-9]+(?:-[A-Z0-9]+)+ : code characters and hyphens, at
\* least one hyphen, and every hyphen has a code character on both sides
HyphenatedRun(s, i, j) ==
    /\ i < j
    /\ \A k \in i..j : IsCodeChar(s[k]) \/ s[k] = "-"
    /\ \E k \in i..j : s[k] = "-"
    /\ IsCodeChar(s[i]) /\ IsCodeChar(s[j])
    /\ \A k \in i..(j - 1) : ~(s[k] = "-" /\ s[k + 1] = "-")

\* r'\b[A-Z0-9]+(?:-[A-Z0-9]+)+\b' has a match in s
MatchesHyphenated(s) ==
    \E i \in 1..Len(s) : \E j \in i..Len(s) :
        /\ WordBoundary(s, i)
        /\ HyphenatedRun(s, i, j)
        /\ WordBoundary(s, j + 1)

\* r'\b(?=.*[A-Z])(?=.*[0-9])[A-Z0-9]{4,}\b' has a match in s.  The two
\* lookaheads scan from the start of the candidate match to the end of the
\* string ('.' stops only at a newline, which no query of the model holds).
MatchesMixed(s) ==
    \E i \in 1..Len(s) : \E j \in i..Len(s) :
        /\ WordBoundary(s, i)
        /\ \E k \in i..Len(s) : IsUpper(s[k])
        /\ \E k \in i..Len(s) : IsDigit(s[k])
        /\ j - i + 1 >= 4
        /\ CodeRun(s, i, j)
        /\ WordBoundary(s, j + 1)

\* where a match of the hyphenated pattern that starts at i can end
HyphenatedEnds(s, i) ==
    IF WordBoundary(s, i)
    THEN {j \in i..Len(s) : HyphenatedRun(s, i, j) /\ WordBoundary(s, j + 1)}
    ELSE {}

\* where a match of the mixed pattern that starts at i can end
MixedEnds(s, i) ==
    IF /\ WordBoundary(s, i)
       /\ \E k \in i..Len(s) : IsUpper(s[k])
       /\ \E k \in i..Len(s) : IsDigit(s[k])
    THEN {j \in i..Len(s) :
            j - i + 1 >= 4 /\ CodeRun(s, i, j) /\ WordBoundary(s, j + 1)}
    ELSE {}

SetMin(S) == CHOOSE x \in S : \A y \in S : x <= y
SetMax(S) == CHOOSE x \in S : \A y \in S : x >= y

\* re.findall: the leftmost match, greedy, then on from its end
RECURSIVE FindAllHyphenated(_, _)
FindAllHyphenated(s, from) ==
    LET starts == {i \in from..Len(s) : HyphenatedEnds(s, i) # {}}
    IN  IF starts = {} THEN <<>>
        ELSE LET i == SetMin(starts)
                 j == SetMax(HyphenatedEnds(s, i))
             IN  <<SubSeq(s, i, j)>> \o FindAllHyphenated(s, j + 1)

RECURSIVE FindAllMixed(_, _)
FindAllMixed(s, from) ==
    LET starts == {i \in from..Len(s) : MixedEnds(s, i) # {}}
    IN  IF starts = {} THEN <<>>
        ELSE LET i == SetMin(starts)
                 j == SetMax(MixedEnds(s, i))
             IN  <<SubSeq(s, i, j)>> \o FindAllMixed(s, j + 1)

Range(f) == {f[i] : i \in DOMAIN f}

\* re.match(r'.*[A-Z0-9]+-[A-Z0-9]+.*', s): a hyphen with a code character
\* on each side
HasInnerHyphen(s) ==
    \E k \in 2..(Len(s) - 1) :
        s[k] = "-" /\ IsCodeChar(s[k - 1]) /\ IsCodeChar(s[k + 1])

\* HybridSearchSystem._normalize_search_terms
NormalizeSearchTerms(q) ==
    LET codeForms ==
            IF HasInnerHyphen(Upper(q))
            THEN { Upper(q), Lower(q),
                   Upper(Replace(q, "-", <<>>)), Lower(Replace(q, "-", <<>>)),
                   Upper(Replace(q, "-", <<" ">>)), Lower(Replace(q, "-", <<" ">>)) }
            ELSE {}
        words == {Lower(Strip(w)) : w \in SplitWords(q)}
    IN  {Lower(q)} \cup codeForms \cup {w \in words : Len(w) > 1}

---------------------------------------------------------------------------
(* HybridSearchSystem.analyze_query and the weight selection               *)

AttributeKeywords ==
    { <<"w","i","t","h">>, <<"h","a","v","i","n","g">>,
      <<"t","y","p","e">>, <<"c","a","t","e","g","o","r","y">> }

HasProductCode(q) ==
    LET u == Upper(q) IN MatchesHyphenated(u) \/ MatchesMixed(u)

HasAttributes(q) ==
    \/ Contains(q, <<":">>)
    \/ Contains(q, <<"=">>)
    \/ \E w \in AttributeKeywords : Contains(Lower(q), w)

analyze_query(q) ==
    [ has_product_code |-> HasProductCode(q),
      code_patterns    |-> FindAllHyphenated(Upper(q), 1) \o FindAllMixed(Upper(q), 1),
      is_short         |-> TokenCount(q) <= 3,
      is_descriptive   |-> TokenCount(q) > 5,
      has_attributes   |-> HasAttributes(q),
      normalized_terms |-> NormalizeSearchTerms(q) ]

\* the chain with the descriptive test moved in front of the product-code test
SelectWeights_DescriptiveFirst(a) ==
    IF a.is_descriptive THEN <<3, 7>>
    ELSE IF a.has_product_code THEN <<8, 2>>
    ELSE IF a.has_attributes THEN <<7, 3>>
    ELSE <<5, 5>>

\* the if/elif chain of hybrid_search, weights in tenths
SelectWeights(a) ==
    IF a.has_product_code THEN <<8, 2>>
    ELSE IF a.is_descriptive THEN <<3, 7>>
    ELSE IF a.has_attributes THEN <<7, 3>>
    ELSE <<5, 5>>

---------------------------------------------------------------------------
(* Queries the analysis is run on                                          *)

MaxQueryLen == 6    \* character-level queries: every string up to this length
MaxWords    == 6    \* word-level queries: every word sequence up to this length

Alphabet == {"a", "1", "-", " ", ":"}

Vocabulary ==
    { <<"t","y","p","e">>, <<"5">>, <<"x","-","1">>, <<"a",":">> }

\* ' '.join(ws)
RECURSIVE Join(_)
Join(ws) ==
    IF Len(ws) = 0 THEN <<>>
    ELSE IF Len(ws) = 1 THEN ws[1]
    ELSE ws[1] \o <<" ">> \o Join(Tail(ws))

CharQueries == UNION {[1..n -> Alphabet] : n \in 0..MaxQueryLen}

WordQueries == {Join(ws) : ws \in UNION {[1..n -> Vocabulary] : n \in 1..MaxWords}}

\* the example queries of the documentation
ExampleQueries ==
    { <<"C","X","-","1","1","2">>,
      <<"A","I","U","R","-","0","6","-","1","0","2","J">>,
      <<"w","i","r","e","l","e","s","s"," ","h","e","a","d","p","h","o","n","e","s">>,
      <<"c","a","p","a","c","i","t","y",":"," ","5"," ","t","o","n","s">>,
      <<"c","r","a","n","e">>,
      <<"a"," ","b","i","g"," ","r","e","d"," ","b","o","x"," ","o","n"," ","m","y"," ","o","l","d"," ","c","a","r">> }

Queries == CharQueries \cup WordQueries \cup ExampleQueries

---------------------------------------------------------------------------
(* Specification of the query analysis                                     *)

\* the fields before analyze_query has run (line 50-57 of the source)
BlankAnalysis ==
    [ has_product_code |-> FALSE, code_patterns |-> <<>>, is_short |-> FALSE,
      is_descriptive |-> FALSE, has_attributes |-> FALSE, normalized_terms |-> {} ]

InitAnalysis ==
    /\ mode = "analysis"
    /\ pc = "start"
    /\ query \in Queries
    /\ analysis = BlankAnalysis
    /\ weights = <<0, 0>>
    /\ terms = {}
    /\ rawScores = <<>>
    /\ normScores = <<>>
    /\ graph = <<>>
    /\ points = <<>>
    /\ engine = "none"
    /\ JELLYFISH_AVAILABLE = FALSE
    /\ previous = <<>>
    /\ fusion = <<>>
    /\ faults = NoFaults
    /\ calls = {}
    /\ indexes = SearchIndexes
    /\ limit = 0
    /\ neo4j_results = <<>>
    /\ qdrant_results = <<>>
    /\ result = <<>>
    /\ outcome = "none"
    /\ compared = <<>>
    /\ similarity = <<0, 1>>
    /\ issued = <<>>

\* analyze_query(query), called on any string
AnalyzeQuery ==
    /\ mode = "analysis"
    /\ pc = "start"
    /\ pc' = "analysed"
    /\ analysis' = analyze_query(query)
    /\ UNCHANGED <<mode, query, weights, codeVars, fuzzyVars, fulltextVars, normalizeVars, storeVars, engineVars, searchVars, fusionVars>>

\* hybrid_search up to the weight selection: the blank query returns before
\* any weight is chosen
ChooseWeights ==
    /\ mode = "analysis"
    /\ pc = "analysed"
    /\ ~IsBlank(query)
    /\ pc' = "weighted"
    /\ weights' = SelectWeights(analysis)
    /\ UNCHANGED <<mode, query, analysis, codeVars, fuzzyVars, fulltextVars, normalizeVars, storeVars, engineVars, searchVars, fusionVars>>

NextAnalysis == AnalyzeQuery \/ ChooseWeights

SpecAnalysis == InitAnalysis /\ [][NextAnalysis]_vars

---------------------------------------------------------------------------
(* Product-code variations: the query side (FuzzySearchEnhancer) and the   *)
(* loader side (Neo4jProductLoader)                                        *)

\* parts[i].upper() if i % 2 == 0 else parts[i].lower(), i counted from 0
AlternateCase(parts) ==
    [i \in 1..Len(parts) |->
        IF (i - 1) % 2 = 0 THEN Upper(parts[i]) ELSE Lower(parts[i])]

\* the query-side generator without the dot-separated forms
GenerateEnhancedCodeVariations_NoDot(code) ==
    LET no_hyphen          == Replace(code, "-", <<>>)
        space_version      == Replace(code, "-", <<" ">>)
        underscore_version == Replace(code, "-", <<"_">>)
        parts              == SplitChar(code, "-")
        mixed ==
            IF Contains(code, <<"-">>) /\ Len(parts) >= 2
            THEN { Upper(parts[1]) \o <<"-">>
                       \o JoinWith([i \in 1..(Len(parts) - 1) |-> Lower(parts[i + 1])], <<"-">>),
                   JoinWith(AlternateCase(parts), <<"-">>) }
            ELSE {}
    IN  { Upper(code), Lower(code), code,
          Upper(no_hyphen), Lower(no_hyphen),
          Upper(space_version), Lower(space_version),
          Upper(underscore_version), Lower(underscore_version) } \cup mixed

\* FuzzySearchEnhancer._generate_enhanced_code_variations
GenerateEnhancedCodeVariations(code) ==
    LET no_hyphen          == Replace(code, "-", <<>>)
        space_version      == Replace(code, "-", <<" ">>)
        underscore_version == Replace(code, "-", <<"_">>)
        dot_version        == Replace(code, "-", <<".">>)
        parts              == SplitChar(code, "-")
        mixed ==
            IF Contains(code, <<"-">>) /\ Len(parts) >= 2
            THEN { Upper(parts[1]) \o <<"-">>
                       \o JoinWith([i \in 1..(Len(parts) - 1) |-> Lower(parts[i + 1])], <<"-">>),
                   JoinWith(AlternateCase(parts), <<"-">>) }
            ELSE {}
    IN  { Upper(code), Lower(code), code,
          Upper(no_hyphen), Lower(no_hyphen),
          Upper(space_version), Lower(space_version),
          Upper(underscore_version), Lower(underscore_version),
          Upper(dot_version), Lower(dot_version) } \cup mixed

\* the loader's generator without the space-separated form
GenerateCodeVariations_NoSpace(code) ==
    LET no_hyphen == Replace(code, "-", <<>>)
        typed     == {code} \cup (IF no_hyphen # code THEN {no_hyphen} ELSE {})
    IN  typed \cup {Lower(v) : v \in typed}

\* Neo4jProductLoader.generate_code_variations
GenerateCodeVariations(code) ==
    LET no_hyphen     == Replace(code, "-", <<>>)
        space_version == Replace(code, "-", <<" ">>)
        typed == {code}
                   \cup (IF no_hyphen # code THEN {no_hyphen} ELSE {})
                   \cup (IF space_version # code THEN {space_version} ELSE {})
    IN  typed \cup {Lower(v) : v \in typed}

\* Neo4jProductLoader.extract_product_codes
ExtractProductCodes(text) ==
    IF Len(text) = 0 THEN {}
    ELSE Range(FindAllHyphenated(Upper(text), 1)) \cup Range(FindAllMixed(Upper(text), 1))

\* the code terms extract_search_terms puts into a product's term list for a
\* name (its other statements only add further terms to the same set)
ExtractCodeTerms(name) ==
    UNION {GenerateCodeVariations(c) : c \in ExtractProductCodes(name)}

MaxCodeLen == 5     \* codes and names: every string up to this length

CodeAlphabet == {"c", "X", "1", "-", " "}

CodeInputs == UNION {[1..n -> CodeAlphabet] : n \in 0..MaxCodeLen}

InitCodes ==
    /\ mode = "codes"
    /\ pc = "start"
    /\ query \in CodeInputs
    /\ analysis = BlankAnalysis
    /\ weights = <<0, 0>>
    /\ terms = {}
    /\ rawScores = <<>>
    /\ normScores = <<>>
    /\ graph = <<>>
    /\ points = <<>>
    /\ engine = "none"
    /\ JELLYFISH_AVAILABLE = FALSE
    /\ previous = <<>>
    /\ fusion = <<>>
    /\ faults = NoFaults
    /\ calls = {}
    /\ indexes = SearchIndexes
    /\ limit = 0
    /\ neo4j_results = <<>>
    /\ qdrant_results = <<>>
    /\ result = <<>>
    /\ outcome = "none"
    /\ compared = <<>>
    /\ similarity = <<0, 1>>
    /\ issued = <<>>

\* the query side: _generate_enhanced_code_variations(query)
EnhancedVariations ==
    /\ mode = "codes"
    /\ pc = "start"
    /\ pc' = "enhanced"
    /\ terms' = GenerateEnhancedCodeVariations(query)
    /\ UNCHANGED <<mode, query, analysisVars, fuzzyVars, fulltextVars, normalizeVars, storeVars, engineVars, searchVars, fusionVars>>

\* the loader side: generate_code_variations(code)
LoaderVariations ==
    /\ mode = "codes"
    /\ pc = "start"
    /\ pc' = "loader"
    /\ terms' = GenerateCodeVariations(query)
    /\ UNCHANGED <<mode, query, analysisVars, fuzzyVars, fulltextVars, normalizeVars, storeVars, engineVars, searchVars, fusionVars>>

\* the loader side as the loader runs it: the codes of a product name
LoaderCodeTerms ==
    /\ mode = "codes"
    /\ pc = "start"
    /\ pc' = "extracted"
    /\ terms' = ExtractCodeTerms(query)
    /\ UNCHANGED <<mode, query, analysisVars, fuzzyVars, fulltextVars, normalizeVars, storeVars, engineVars, searchVars, fusionVars>>

NextCodes == EnhancedVariations \/ LoaderVariations \/ LoaderCodeTerms

SpecCodes == InitCodes /\ [][NextCodes]_vars

---------------------------------------------------------------------------
(* Scores: Python floats, modelled as exact rationals <<numerator,         *)
(* denominator>> in lowest terms with a positive denominator               *)

RECURSIVE GCD(_, _)
GCD(a, b) == IF b = 0 THEN a ELSE GCD(b, a % b)

Abs(x) == IF x < 0 THEN -x ELSE x

Rat(n, d) ==
    LET g  == GCD(Abs(n), Abs(d))
        sg == IF d < 0 THEN -1 ELSE 1
    IN  <<sg * (n \div g), sg * (d \div g)>>

Zero == <<0, 1>>
One  == <<1, 1>>

\* what a division by zero leaves: the ZeroDivisionError of the source
DivisionByZero == <<0, 0>>

RatAdd(a, b) ==
    LET g == GCD(a[2], b[2])
    IN  Rat(a[1] * (b[2] \div g) + b[1] * (a[2] \div g), (a[2] \div g) * b[2])

RatNeg(a) == <<-a[1], a[2]>>
RatSub(a, b) == RatAdd(a, RatNeg(b))

RatMul(a, b) ==
    LET g1 == GCD(Abs(a[1]), b[2])
        g2 == GCD(Abs(b[1]), a[2])
    IN  IF a[1] = 0 \/ b[1] = 0 THEN Zero
        ELSE Rat((a[1] \div g1) * (b[1] \div g2), (a[2] \div g2) * (b[2] \div g1))

RatDiv(a, b) ==
    IF b[1] = 0 THEN DivisionByZero
    ELSE RatMul(a, Rat(b[2], b[1]))

\* a/b < c/d for b, d > 0, by the integer parts and then the remainders, so
\* that no product larger than the operands is formed
RECURSIVE FracLess(_, _, _, _)
FracLess(a, b, c, d) ==
    LET q1 == a \div b
        q2 == c \div d
        r1 == a % b
        r2 == c % d
    IN  IF q1 # q2 THEN q1 < q2
        ELSE IF r2 = 0 THEN FALSE
        ELSE IF r1 = 0 THEN TRUE
        ELSE FracLess(d, r2, b, r1)

RatLess(a, b) == FracLess(a[1], a[2], b[1], b[2])
RatLeq(a, b)  == ~RatLess(b, a)

\* min(scores) and max(scores) of a non-empty dict
MinScore(d) == CHOOSE x \in Range(d) : \A y \in Range(d) : RatLeq(x, y)
MaxScore(d) == CHOOSE x \in Range(d) : \A y \in Range(d) : RatLeq(y, x)

---------------------------------------------------------------------------
(* EnhancedHybridSearch.normalize_scores                                   *)

\* the function without its max == min branch
NormalizeScores_NoEqualBranch(d) ==
    IF DOMAIN d = {} THEN d
    ELSE [k \in DOMAIN d |->
            RatDiv(RatSub(d[k], MinScore(d)), RatSub(MaxScore(d), MinScore(d)))]

\* the normalized_score of every item of scores_dict; the empty dict is
\* returned as it is
NormalizeScores(d) ==
    IF DOMAIN d = {} THEN d
    ELSE LET min_score == MinScore(d)
             max_score == MaxScore(d)
         IN  IF max_score = min_score
             THEN [k \in DOMAIN d |-> One]
             ELSE [k \in DOMAIN d |->
                     RatDiv(RatSub(d[k], min_score), RatSub(max_score, min_score))]

MaxDictSize == 3    \* scores_dict holds at most this many items
MaxRawScore == 6    \* raw scores are the integers -1 .. MaxRawScore

RawScoreValues == {Rat(n, 1) : n \in (-1)..MaxRawScore}

ScoreDicts == UNION {[K -> RawScoreValues] : K \in SUBSET (1..MaxDictSize)}

InitNormalize ==
    /\ mode = "normalize"
    /\ pc = "start"
    /\ query = <<>>
    /\ analysis = BlankAnalysis
    /\ weights = <<0, 0>>
    /\ terms = {}
    /\ rawScores \in ScoreDicts
    /\ normScores = <<>>
    /\ graph = <<>>
    /\ points = <<>>
    /\ engine = "none"
    /\ JELLYFISH_AVAILABLE = FALSE
    /\ previous = <<>>
    /\ fusion = <<>>
    /\ faults = NoFaults
    /\ calls = {}
    /\ indexes = SearchIndexes
    /\ limit = 0
    /\ neo4j_results = <<>>
    /\ qdrant_results = <<>>
    /\ result = <<>>
    /\ outcome = "none"
    /\ compared = <<>>
    /\ similarity = <<0, 1>>
    /\ issued = <<>>

\* normalize_scores(scores_dict)
Normalize ==
    /\ mode = "normalize"
    /\ pc = "start"
    /\ pc' = "normalized"
    /\ normScores' = NormalizeScores(rawScores)
    /\ UNCHANGED <<mode, query, analysisVars, codeVars, fuzzyVars, fulltextVars, rawScores, storeVars, engineVars, searchVars, fusionVars>>

NextNormalize == Normalize

SpecNormalize == InitNormalize /\ [][NextNormalize]_vars

---------------------------------------------------------------------------
(* The two stores, as one query sees them                                  *)

\* the catalogue: product ids, and the id search_qdrant gives to a point
\* whose payload has no product_id
Products  == {1, 2}
UnknownId == 0

crane == <<"c","r","a","n","e">>
cx1   == <<"c","x","-","1">>

\* p.name of the Product node and payload['name'] of its points; a point
\* without product_id is taken to have no name either
ProductName ==
    [p \in Products \cup {UnknownId} |->
        CASE p = 1 -> crane
          [] p = 2 -> cx1 \o <<" ">> \o crane
          [] OTHER -> <<>>]

\* what the graph store holds about one product for the query under way:
\* how many search terms are in its search_terms_list, its full-text
\* relevance (0: not a hit), how many of its attributes match
MatchCounts     == {0, 1}
FulltextScores  == {Zero, Rat(1, 2), Rat(2, 1)}
AttributeCounts == {0, 1}

GraphAnswers ==
    [matches : MatchCounts, fulltext : FulltextScores, attributes : AttributeCounts]

\* cosine similarities the vector store reports (Distance.COSINE)
Similarities == {Rat(-1, 5), Rat(9, 10)}

PointRows == [product_id : Products \cup {UnknownId}, score : Similarities]

\* row a is listed before row b in the canonical listing of the points
RowBefore(a, b) ==
    \/ RatLess(b.score, a.score)
    \/ a.score = b.score /\ a.product_id <= b.product_id

NearestPoints ==
    {<<>>} \cup {<<r>> : r \in PointRows}
           \cup {rr \in PointRows \X PointRows : RowBefore(rr[1], rr[2])}

\* ORDER BY score DESC (and the vector store's nearest-first order): every
\* arrangement of the rows with non-increasing scores, equal-scored rows in
\* any order
Arrangements(n) ==
    {f \in [1..n -> 1..n] : \A i \in 1..n : \A j \in 1..n : i # j => f[i] # f[j]}

OrderByScoreDesc(rows) ==
    {[i \in 1..Len(rows) |-> rows[f[i]]] : f \in
        {g \in Arrangements(Len(rows)) :
            \A i \in 1..(Len(rows) - 1) :
                RatLeq(rows[g[i + 1]].score, rows[g[i]].score)}}

\* list(...) of the items of f, a function on 1..n
ListOf(f) == SubSeq(f, 1, Len(f))

\* s[:n] of Python
Slice(s, n) ==
    IF n >= 0
    THEN SubSeq(s, 1, IF n < Len(s) THEN n ELSE Len(s))
    ELSE SubSeq(s, 1, IF Len(s) + n > 0 THEN Len(s) + n ELSE 0)

\* the products in ascending id order, as a sequence
RECURSIVE SortedSeq(_)
SortedSeq(S) ==
    IF S = {} THEN <<>>
    ELSE LET m == SetMin(S) IN <<m>> \o SortedSeq(S \ {m})

\* the rows of the three Cypher queries before ORDER BY and LIMIT
PrecomputedRows(g) ==
    LET hits == SortedSeq({p \in DOMAIN g : g[p].matches > 0})
    IN  [i \in 1..Len(hits) |->
            [product_id |-> hits[i], score |-> Rat(g[hits[i]].matches, 1)]]

FulltextRows(g) ==
    LET hits == SortedSeq({p \in DOMAIN g : g[p].fulltext # Zero})
    IN  [i \in 1..Len(hits) |->
            [product_id |-> hits[i], score |-> g[hits[i]].fulltext]]

AttributeRows(g) ==
    LET hits == SortedSeq({p \in DOMAIN g : g[p].attributes > 0})
    IN  [i \in 1..Len(hits) |->
            [product_id |-> hits[i], score |-> Rat(g[hits[i]].attributes, 1)]]

\* ... ORDER BY score DESC LIMIT $limit
Answers(rows, n) == {Slice(o, n) : o \in OrderByScoreDesc(rows)}

---------------------------------------------------------------------------
(* HybridSearchSystem: search_neo4j, search_qdrant, hybrid_search          *)

NeoLimit    == 20    \* search_neo4j(..., limit=20)
QdrantLimit == 20    \* search_qdrant(query, limit=20)
RankOffset  == 10    \* rr_score = 1.0 / (rank + 10)

PrecomputedFactor  == Rat(3, 1)
FulltextFactor     == Rat(2, 1)
FulltextAddFactor  == Rat(1, 2)
AttributeFactor    == Rat(3, 2)
AttributeAddFactor == Rat(3, 10)
RankShare          == Rat(7, 10)
ScoreShare         == Rat(3, 10)
Epsilon            == Rat(1, 1000)
CrossSourceBonus   == Rat(6, 5)

\* the position of pid in a list of dicts keyed by 'id'; 0 for "not in"
IndexOf(results, pid) ==
    IF \E i \in DOMAIN results : results[i].id = pid
    THEN CHOOSE i \in DOMAIN results : results[i].id = pid
    ELSE 0

NewEntry(record, factor, method) ==
    [id          |-> record.product_id,
     name        |-> ProductName[record.product_id],
     neo4j_score |-> RatMul(record.score, factor),
     methods     |-> <<method>>]

\* Strategy 1: a product is entered only if it is not in all_results yet
RECURSIVE MergePrecomputed(_, _)
MergePrecomputed(all_results, rows) ==
    IF rows = <<>> THEN all_results
    ELSE LET record == Head(rows)
             next   == IF IndexOf(all_results, record.product_id) = 0
                       THEN Append(all_results,
                                   NewEntry(record, PrecomputedFactor, "precomputed"))
                       ELSE all_results
         IN  MergePrecomputed(next, Tail(rows))

\* Strategies 2 and 3: a new product is entered with newFactor, a known one
\* gets addFactor times the score added and the method appended
RECURSIVE MergeAdditional(_, _, _, _, _)
MergeAdditional(all_results, rows, method, newFactor, addFactor) ==
    IF rows = <<>> THEN all_results
    ELSE LET record == Head(rows)
             i      == IndexOf(all_results, record.product_id)
             next   == IF i = 0
                       THEN Append(all_results, NewEntry(record, newFactor, method))
                       ELSE [all_results EXCEPT ![i] =
                               [@ EXCEPT
                                  !.neo4j_score = RatAdd(@, RatMul(record.score, addFactor)),
                                  !.methods = Append(@, method)]]
         IN  MergeAdditional(next, Tail(rows), method, newFactor, addFactor)

\* list(all_results.values()) after the three strategies, given the rows
\* each query returned
search_neo4j(precomputed, fulltext, attribute) ==
    MergeAdditional(
        MergeAdditional(MergePrecomputed(<<>>, precomputed),
                        fulltext, "fulltext", FulltextFactor, FulltextAddFactor),
        attribute, "attribute", AttributeFactor, AttributeAddFactor)

\* the list search_qdrant builds from the points the vector store returned
search_qdrant(rows) ==
    [i \in 1..Len(rows) |->
        [id           |-> rows[i].product_id,
         name         |-> ProductName[rows[i].product_id],
         qdrant_score |-> rows[i].score]]

Weight(tenths) == Rat(tenths, 10)

ReciprocalRank(rank) == Rat(1, rank + RankOffset)

\* max([r['neo4j_score'] for r in neo4j_results]) of a non-empty list
MaxNeo4jScore(results) ==
    LET scores == {results[i].neo4j_score : i \in DOMAIN results}
    IN  CHOOSE x \in scores : \A y \in scores : RatLeq(y, x)

InternalScore(score, max_score) == RatDiv(score, RatAdd(max_score, Epsilon))

\* final_score of a product of the Neo4j list
LexicalScore(neo4j_weight, rank, internal_score) ==
    RatMul(neo4j_weight,
           RatAdd(RatMul(RankShare, ReciprocalRank(rank)),
                  RatMul(ScoreShare, internal_score)))

\* final_score of a product that only the Qdrant list holds
SemanticScore(qdrant_weight, rank) == RatMul(qdrant_weight, ReciprocalRank(rank))

\* final_score += qdrant_weight * rr_score; final_score *= 1.2, with a
\* factor below 1 in place of 1.2
BoostedScore_Penalised(final_score, qdrant_weight, rank) ==
    RatMul(RatAdd(final_score, SemanticScore(qdrant_weight, rank)), Rat(4, 5))

\* final_score += qdrant_weight * rr_score; final_score *= 1.2
BoostedScore(final_score, qdrant_weight, rank) ==
    RatMul(RatAdd(final_score, SemanticScore(qdrant_weight, rank)), CrossSourceBonus)

\* combined_scores after the loop over the Neo4j list; a key a dict does not
\* have is told by has_neo4j / has_qdrant
NeoCandidates(results, neo4j_weight) ==
    ListOf([rank \in 1..Len(results) |->
        LET internal_score ==
                InternalScore(results[rank].neo4j_score, MaxNeo4jScore(results))
        IN  [id            |-> results[rank].id,
             name          |-> results[rank].name,
             has_neo4j     |-> TRUE,
             neo4j_rank    |-> rank,
             neo4j_score   |-> internal_score,
             neo4j_methods |-> results[rank].methods,
             has_qdrant    |-> FALSE,
             qdrant_rank   |-> 0,
             qdrant_score  |-> Zero,
             fuzzy_bonus   |-> Zero,
             final_score   |-> LexicalScore(neo4j_weight, rank, internal_score)]])

\* combined_scores after the loop over the Qdrant list, entered at rank
\* every semantic row opens an entry of its own
RECURSIVE FuseQdrant_AlwaysAppend(_, _, _, _)
FuseQdrant_AlwaysAppend(combined_scores, results, rank, qdrant_weight) ==
    IF rank > Len(results) THEN combined_scores
    ELSE LET r == results[rank]
         IN  FuseQdrant_AlwaysAppend(
                 Append(combined_scores,
                     [id            |-> r.id,
                      name          |-> r.name,
                      has_neo4j     |-> FALSE,
                      neo4j_rank    |-> 0,
                      neo4j_score   |-> Zero,
                      neo4j_methods |-> <<>>,
                      has_qdrant    |-> TRUE,
                      qdrant_rank   |-> rank,
                      qdrant_score  |-> r.qdrant_score,
                      fuzzy_bonus   |-> Zero,
                      final_score   |-> SemanticScore(qdrant_weight, rank)]),
                 results, rank + 1, qdrant_weight)

RECURSIVE FuseQdrant(_, _, _, _)
FuseQdrant(combined_scores, results, rank, qdrant_weight) ==
    IF rank > Len(results) THEN combined_scores
    ELSE LET r    == results[rank]
             i    == IndexOf(combined_scores, r.id)
             next == IF i # 0
                     THEN [combined_scores EXCEPT ![i] =
                             [@ EXCEPT
                                !.has_qdrant = TRUE,
                                !.qdrant_rank = rank,
                                !.qdrant_score = r.qdrant_score,
                                !.final_score = BoostedScore(@, qdrant_weight, rank)]]
                     ELSE Append(combined_scores,
                             [id            |-> r.id,
                              name          |-> r.name,
                              has_neo4j     |-> FALSE,
                              neo4j_rank    |-> 0,
                              neo4j_score   |-> Zero,
                              neo4j_methods |-> <<>>,
                              has_qdrant    |-> TRUE,
                              qdrant_rank   |-> rank,
                              qdrant_score  |-> r.qdrant_score,
                              fuzzy_bonus   |-> Zero,
                              final_score   |-> SemanticScore(qdrant_weight, rank)])
         IN  FuseQdrant(next, results, rank + 1, qdrant_weight)

\* the values as they stand in the dict, not sorted
SortedByScore_Unsorted(values) == values

\* sorted(values, key=final_score, reverse=True): descending, and stable,
\* so that equal scores keep the order the values had
RECURSIVE SortedByScore(_)
SortedByScore(values) ==
    IF values = <<>> THEN <<>>
    ELSE LET front == SortedByScore(SubSeq(values, 1, Len(values) - 1))
             x     == values[Len(values)]
             k     == Cardinality({i \in DOMAIN front :
                          RatLeq(x.final_score, front[i].final_score)})
         IN  SubSeq(front, 1, k) \o <<x>> \o SubSeq(front, k + 1, Len(front))

\* sorted(...) without the [:limit]
Untruncated(values, n) == SortedByScore(values)

\* sorted(...)[:limit]
TopResults(values, n) == Slice(SortedByScore(values), n)

\* the fusion of hybrid_search, from the two retrievers' lists
Fuse(neo4j, qdrant, w, n) ==
    TopResults(FuseQdrant(NeoCandidates(neo4j, Weight(w[1])), qdrant, 1, Weight(w[2])), n)

---------------------------------------------------------------------------
(* FuzzySearchEnhancer: fuzzy_similarity and the parts of                  *)
(* normalize_search_input_enhanced that decide the course of a search      *)

\* _get_basic_stopwords()
BasicStopwords ==
    {<<"a">>, <<"a","n">>, <<"a","n","d">>, <<"a","r","e">>, <<"a","s">>,
     <<"a","t">>, <<"b","e">>, <<"b","y">>, <<"f","o","r">>,
     <<"f","r","o","m">>, <<"t","h","e">>, <<"t","o">>, <<"o","f">>,
     <<"i","n">>, <<"i","s">>, <<"i","t">>, <<"o","n">>,
     <<"t","h","a","t">>, <<"t","h","i","s">>, <<"w","i","t","h">>,
     <<"o","r">>, <<"b","u","t">>, <<"n","o","t">>, <<"c","a","n">>,
     <<"w","i","l","l">>, <<"h","a","s">>, <<"h","a","v","e">>,
     <<"h","a","d">>, <<"w","a","s">>, <<"w","e","r","e">>}

\* the entries of common_misspellings for the word "cable"
cable == <<"c","a","b","l","e">>
cabl  == <<"c","a","b","l">>

CommonMisspellings ==
    [w \in {cabl, <<"c","a","b","e","l">>, <<"c","a","l","b","e">>} |-> cable]

\* re.match(r'.*[A-Z0-9]+-[A-Z0-9]+.*', query.upper())
IsProductCodeQuery(q) ==
    LET u == Upper(q)
    IN  \E i \in 1..(Len(u) - 2) :
            IsCodeChar(u[i]) /\ u[i + 1] = "-" /\ IsCodeChar(u[i + 2])

\* results['corrected_terms'] of a query that is not a product code query
CorrectedTerms(q) ==
    {CommonMisspellings[w] :
        w \in {x \in SplitWords(Strip(Lower(q))) :
                  /\ Len(x) > 1
                  /\ x \notin BasicStopwords
                  /\ x \in DOMAIN CommonMisspellings}}

\* set(re.split(r'[\s\-_,;:.()]+', s)): the words, and the empty string
\* when s is empty or begins or ends with a separator
SplitSet(s) ==
    SplitWords(s) \cup
        (IF s = <<>> \/ IsSeparator(s[1]) \/ IsSeparator(s[Len(s)])
         THEN {<<>>} ELSE {})

\* SequenceMatcher.get_matching_blocks: the number of matched characters of
\* a[alo..ahi] and b[blo..bhi]; the longest block, the earliest in a and
\* then in b among the longest, and the same to its left and to its right
RECURSIVE MatchedChars(_, _, _, _, _, _)
MatchedChars(a, b, alo, ahi, blo, bhi) ==
    LET blocks == {t \in (alo..ahi) \X (blo..bhi) \X (1..(ahi - alo + 1)) :
                      /\ t[1] + t[3] - 1 <= ahi
                      /\ t[2] + t[3] - 1 <= bhi
                      /\ \A d \in 0..(t[3] - 1) : a[t[1] + d] = b[t[2] + d]}
    IN  IF blocks = {} THEN 0
        ELSE LET k == SetMax({t[3] : t \in blocks})
                 i == SetMin({t[1] : t \in {x \in blocks : x[3] = k}})
                 j == SetMin({t[2] : t \in {x \in blocks : x[3] = k /\ x[1] = i}})
             IN  k + MatchedChars(a, b, alo, i - 1, blo, j - 1)
                   + MatchedChars(a, b, i + k, ahi, j + k, bhi)

\* SequenceMatcher(None, a, b).ratio()
SequenceRatio(a, b) ==
    IF Len(a) + Len(b) = 0 THEN One
    ELSE Rat(2 * MatchedChars(a, b, 1, Len(a), 1, Len(b)), Len(a) + Len(b))

\* the matching of the Jaro similarity: each character of ying in turn takes
\* the first unused equal character of yang within the search range
RECURSIVE JaroMatches(_, _, _, _, _)
JaroMatches(ying, yang, i, range, used) ==
    IF i > Len(ying) THEN {}
    ELSE LET cands == {j \in 1..Len(yang) :
                          /\ j >= i - range
                          /\ j <= i + range
                          /\ j \notin used
                          /\ yang[j] = ying[i]}
         IN  IF cands = {} THEN JaroMatches(ying, yang, i + 1, range, used)
             ELSE {<<i, SetMin(cands)>>}
                    \cup JaroMatches(ying, yang, i + 1, range, used \cup {SetMin(cands)})

CommonPrefix(a, b, n) ==
    Cardinality({k \in 1..n : \A m \in 1..k : a[m] = b[m]})

\* jellyfish.jaro_winkler_similarity(ying, yang)
JaroWinkler(ying, yang) ==
    IF Len(ying) = 0 \/ Len(yang) = 0 THEN Zero
    ELSE
    LET longer  == IF Len(ying) > Len(yang) THEN Len(ying) ELSE Len(yang)
        shorter == IF Len(ying) < Len(yang) THEN Len(ying) ELSE Len(yang)
        range   == IF (longer \div 2) - 1 < 0 THEN 0 ELSE (longer \div 2) - 1
        pairs   == JaroMatches(ying, yang, 1, range, {})
        common  == Cardinality(pairs)
        yings   == SortedSeq({p[1] : p \in pairs})
        yangs   == SortedSeq({p[2] : p \in pairs})
        trans   == Cardinality({k \in 1..common : ying[yings[k]] # yang[yangs[k]]}) \div 2
    IN  IF common = 0 THEN Zero
        ELSE LET weight == RatDiv(RatAdd(RatAdd(Rat(common, Len(ying)), Rat(common, Len(yang))),
                                         Rat(common - trans, common)),
                                  Rat(3, 1))
                 prefix == CommonPrefix(ying, yang, IF shorter < 4 THEN shorter ELSE 4)
             IN  IF RatLess(Rat(7, 10), weight) /\ prefix > 0
                 THEN RatAdd(weight, RatMul(Rat(prefix, 10), RatSub(One, weight)))
                 ELSE weight

RatMax(a, b) == IF RatLess(a, b) THEN b ELSE a

\* fuzzy_similarity(s1, s2), with JELLYFISH_AVAILABLE handed in as jellyfish
fuzzy_similarity(s1, s2, jellyfish) ==
    IF s1 = s2 THEN One
    ELSE LET s1_lower  == Lower(s1)
             s2_lower  == Lower(s2)
             seq_score == SequenceRatio(s1_lower, s2_lower)
         IN  IF jellyfish
             THEN RatMax(JaroWinkler(s1_lower, s2_lower), seq_score)
             ELSE IF Contains(s2_lower, s1_lower) \/ Contains(s1_lower, s2_lower)
                  THEN RatMax(seq_score, Rat(7, 10))
                  ELSE seq_score

---------------------------------------------------------------------------
(* EnhancedHybridSearch: the retrievers, the post-processing and           *)
(* enhanced_hybrid_search                                                   *)

EnhancedLimit == 25    \* search_neo4j_enhanced(query, limit=25), search_qdrant(query, limit=25)
TopK          == 15    \* sorted(...)[:15]

ExactCodeFactor      == Rat(5, 1)
CodeFulltextFactor   == Rat(3, 1)
CodeFulltextMinimum  == Rat(4, 5)
ExactMatchScore      == Rat(5, 1)
FuzzyFactor          == Rat(2, 1)
EnhancedFulltextFactor == Rat(9, 5)
CorrectedFactor      == Rat(3, 2)
EnhancedAttributeFactor == Rat(13, 10)
SimilarityThreshold  == Rat(3, 5)
SimilarityShare      == Rat(3, 10)
OverlapShare         == Rat(1, 5)

\* neo4j_results[pid] = {...}: the value of a known key is replaced where it
\* stands, a new key goes to the end
RECURSIVE SetEntries(_, _, _)
SetEntries(results, rows, factor) ==
    IF rows = <<>> THEN results
    ELSE LET record == Head(rows)
             i      == IndexOf(results, record.product_id)
             entry  == [id    |-> record.product_id,
                        name  |-> ProductName[record.product_id],
                        score |-> RatMul(record.score, factor)]
             next   == IF i = 0 THEN Append(results, entry)
                       ELSE [results EXCEPT ![i] = entry]
         IN  SetEntries(next, Tail(rows), factor)

\* if pid not in neo4j_results: neo4j_results[pid] = {...}
RECURSIVE AddMissingEntries(_, _, _)
AddMissingEntries(results, rows, factor) ==
    IF rows = <<>> THEN results
    ELSE LET record == Head(rows)
             next   == IF IndexOf(results, record.product_id) = 0
                       THEN Append(results,
                                [id    |-> record.product_id,
                                 name  |-> ProductName[record.product_id],
                                 score |-> RatMul(record.score, factor)])
                       ELSE results
         IN  AddMissingEntries(next, Tail(rows), factor)

\* score_boost is added to a known product, and is the score of a new one
RECURSIVE BoostEntries(_, _, _)
BoostEntries(results, rows, factor) ==
    IF rows = <<>> THEN results
    ELSE LET record      == Head(rows)
             i           == IndexOf(results, record.product_id)
             score_boost == RatMul(record.score, factor)
             next        == IF i # 0
                            THEN [results EXCEPT ![i].score = RatAdd(@, score_boost)]
                            ELSE Append(results,
                                    [id    |-> record.product_id,
                                     name  |-> ProductName[record.product_id],
                                     score |-> score_boost])
         IN  BoostEntries(next, Tail(rows), factor)

\* the rows of the full-text query of a product code: WHERE score > 0.8
CodeFulltextRows(g) ==
    LET rows == FulltextRows(g)
        kept == {i \in DOMAIN rows : RatLess(CodeFulltextMinimum, rows[i].score)}
    IN  [k \in 1..Cardinality(kept) |-> rows[SortedSeq(kept)[k]]]

\* the rows of the enhanced pre-computed query: fuzzy_score of a product
\* all of whose matches are exact ones
FuzzyRows(g) ==
    LET rows == PrecomputedRows(g)
    IN  [i \in DOMAIN rows |->
            [product_id |-> rows[i].product_id,
             score      |-> RatMul(rows[i].score, ExactMatchScore)]]

\* _search_product_codes_exact: the exact matches, then the full-text hits
\* of each code variation; every variation is answered with the same rows
\* here, so that the first one enters all there is to enter
search_product_codes_exact(exact, fulltext) ==
    AddMissingEntries(SetEntries(<<>>, exact, ExactCodeFactor),
                      fulltext, CodeFulltextFactor)

\* search_neo4j_enhanced of a query that is not a product code query;
\* corrected is <<>> when no correction was made
search_neo4j_enhanced(fuzzy, fulltext, corrected, attribute) ==
    BoostEntries(
        BoostEntries(
            BoostEntries(SetEntries(<<>>, fuzzy, FuzzyFactor),
                         fulltext, EnhancedFulltextFactor),
            corrected, CorrectedFactor),
        attribute, EnhancedAttributeFactor)

\* EnhancedHybridSearch.search_qdrant: a dict, so that a later point of a
\* product replaces the earlier one
search_qdrant_enhanced(rows) == SetEntries(<<>>, rows, One)

\* normalize_scores(results): the normalized_score of each item
Normalized_scores(results) ==
    NormalizeScores([i \in DOMAIN results |-> results[i].score])

\* combined_score of a product of neo4j_results only, of qdrant_results
\* only, and of both
LexicalShare(neo4j_weight, neo4j_score) == RatMul(neo4j_weight, neo4j_score)

SemanticShare(qdrant_weight, qdrant_score) == RatMul(qdrant_weight, qdrant_score)

BothShares(neo4j_weight, neo4j_score, qdrant_weight, qdrant_score) ==
    RatAdd(RatMul(neo4j_weight, neo4j_score), RatMul(qdrant_weight, qdrant_score))

\* combined_results after the loop over neo4j_results
CombineNeo4j(results, norm, neo4j_weight) ==
    ListOf([k \in DOMAIN results |->
        [id            |-> results[k].id,
         name          |-> results[k].name,
         has_neo4j     |-> TRUE,
         neo4j_rank    |-> 0,
         neo4j_score   |-> norm[k],
         neo4j_methods |-> <<>>,
         has_qdrant    |-> FALSE,
         qdrant_rank   |-> 0,
         qdrant_score  |-> Zero,
         fuzzy_bonus   |-> Zero,
         final_score   |-> LexicalShare(neo4j_weight, norm[k])]])

\* combined_results after the loop over qdrant_results, entered at item k
RECURSIVE CombineQdrant(_, _, _, _, _, _)
CombineQdrant(combined, results, norm, k, neo4j_weight, qdrant_weight) ==
    IF k > Len(results) THEN combined
    ELSE LET data == results[k]
             i    == IndexOf(combined, data.id)
             next == IF i # 0
                     THEN [combined EXCEPT ![i] =
                             [@ EXCEPT
                                !.has_qdrant = TRUE,
                                !.qdrant_score = norm[k],
                                !.final_score =
                                    BothShares(neo4j_weight, combined[i].neo4j_score,
                                               qdrant_weight, norm[k])]]
                     ELSE Append(combined,
                             [id            |-> data.id,
                              name          |-> data.name,
                              has_neo4j     |-> FALSE,
                              neo4j_rank    |-> 0,
                              neo4j_score   |-> Zero,
                              neo4j_methods |-> <<>>,
                              has_qdrant    |-> TRUE,
                              qdrant_rank   |-> 0,
                              qdrant_score  |-> norm[k],
                              fuzzy_bonus   |-> Zero,
                              final_score   |-> SemanticShare(qdrant_weight, norm[k])])
         IN  CombineQdrant(next, results, norm, k + 1, neo4j_weight, qdrant_weight)

\* the queries the engines are asked
SearchQueries == {<<>>, <<" ">>, crane, cx1, cabl \o <<" ">> \o crane}

\* the two bonuses apply_fuzzy_post_processing adds for one name
NameBonus(original_query, result_name, jellyfish) ==
    LET query_lower     == Lower(original_query)
        name            == Lower(result_name)
        name_similarity == fuzzy_similarity(query_lower, name, jellyfish)
        query_words     == SplitSet(query_lower) \ BasicStopwords
        name_words      == SplitSet(name) \ BasicStopwords
    IN  [fuzzy_bonus |-> IF RatLess(SimilarityThreshold, name_similarity)
                         THEN RatMul(name_similarity, SimilarityShare)
                         ELSE Zero,
         word_bonus  |-> IF query_words # {} /\ name_words # {}
                         THEN RatMul(Rat(Cardinality(query_words \cap name_words),
                                         Cardinality(query_words)),
                                     OverlapShare)
                         ELSE Zero]

\* the bonuses of the queries and names there are, computed once
Bonuses ==
    [q \in SearchQueries |->
        [n \in Range(ProductName) |->
            [jf \in BOOLEAN |-> NameBonus(q, n, jf)]]]

\* apply_fuzzy_post_processing, for one result
PostProcessed(r, original_query, jellyfish) ==
    LET bonus == IF original_query \in SearchQueries /\ r.name \in Range(ProductName)
                 THEN Bonuses[original_query][r.name][jellyfish]
                 ELSE NameBonus(original_query, r.name, jellyfish)
    IN  [r EXCEPT !.fuzzy_bonus = bonus.fuzzy_bonus,
                  !.final_score = RatAdd(RatAdd(@, bonus.fuzzy_bonus), bonus.word_bonus)]

apply_fuzzy_post_processing(combined, original_query, jellyfish) ==
    [k \in DOMAIN combined |-> PostProcessed(combined[k], original_query, jellyfish)]

\* the list a product code query returns, from the exact retriever's dict
ExactResults(results) ==
    LET norm == Normalized_scores(results)
    IN  Slice(SortedByScore(
            [k \in DOMAIN results |->
                [id            |-> results[k].id,
                 name          |-> results[k].name,
                 has_neo4j     |-> TRUE,
                 neo4j_rank    |-> 0,
                 neo4j_score   |-> norm[k],
                 neo4j_methods |-> <<>>,
                 has_qdrant    |-> FALSE,
                 qdrant_rank   |-> 0,
                 qdrant_score  |-> Zero,
                 fuzzy_bonus   |-> Zero,
                 final_score   |-> norm[k]]]), TopK)

\* the list any other query returns, from the two retrievers' dicts
EnhancedFuse(neo4j, qdrant, w, original_query, jellyfish) ==
    Slice(SortedByScore(
            apply_fuzzy_post_processing(
                CombineQdrant(CombineNeo4j(neo4j, Normalized_scores(neo4j), Weight(w[1])),
                              qdrant, Normalized_scores(qdrant), 1,
                              Weight(w[1]), Weight(w[2])),
                original_query, jellyfish)), TopK)

---------------------------------------------------------------------------
(* Searches: one engine, constructed over stores that do not change        *)

MaxLimit == 3    \* hybrid_search is asked for 0 .. MaxLimit results

Limits == 0..MaxLimit

\* neo4j_weight and qdrant_weight handed to enhanced_hybrid_search, in
\* tenths; the first pair is the default
EnhancedWeights == {<<6, 4>>, <<3, 7>>}

Engines == {"hybrid_search", "enhanced_hybrid_search"}

\* analyze_query of the queries there are, computed once
QueryAnalysis == [q \in SearchQueries |-> analyze_query(q)]

InitSearch ==
    /\ mode = "search"
    /\ pc = "start"
    /\ query = <<>>
    /\ analysis = BlankAnalysis
    /\ weights = <<0, 0>>
    /\ terms = {}
    /\ rawScores = <<>>
    /\ normScores = <<>>
    /\ graph \in [Products -> GraphAnswers]
    /\ points \in NearestPoints
    /\ engine \in Engines
    /\ JELLYFISH_AVAILABLE \in (IF engine = "hybrid_search" THEN {FALSE} ELSE BOOLEAN)
    /\ limit = 0
    /\ neo4j_results = <<>>
    /\ qdrant_results = <<>>
    /\ result = <<>>
    /\ outcome = "none"
    /\ compared = <<>>
    /\ similarity = <<0, 1>>
    /\ issued = <<>>
    /\ previous = <<>>
    /\ fusion = <<>>
    /\ faults = NoFaults
    /\ calls = {}
    /\ indexes = SearchIndexes

\* try: for record in result: ... except Exception: the records the loop
\* handled before the query raised, all of them when it did not
Handled(rows, failure) ==
    IF failure.fails THEN Slice(rows, failure.after) ELSE rows

\* the second query of the full-text try block of search_neo4j_enhanced: it
\* is run once the loop over the first query's records is through
HandledAfter(first, rows, failure) ==
    IF ~failure.fails THEN rows
    ELSE IF failure.after >= Len(first) THEN Slice(rows, failure.after - Len(first))
    ELSE <<>>

\* CALL db.index.fulltext.queryNodes('product_search', ...) raises at once
\* when the graph store has no index of that name
FulltextFailure(failure) ==
    IF "product_search" \in indexes THEN failure
    ELSE [fails |-> TRUE, after |-> 0]

\* the failures a search is run with: any in the behaviours that are about
\* failures, none in the others; the failing searches are asked for
\* MaxLimit results and run with the default weights
FaultChoices == IF mode = "faults" THEN FaultSets ELSE {NoFaults}

LimitChoices == IF mode = "faults" THEN {MaxLimit} ELSE Limits

WeightChoices == IF mode = "faults" THEN {<<6, 4>>} ELSE EnhancedWeights

\* what a search leaves when the query is blank: return []
ReturnsEmpty(q, n, w, f) ==
    /\ query' = q
    /\ limit' = n
    /\ weights' = w
    /\ analysis' = BlankAnalysis
    /\ neo4j_results' = <<>>
    /\ qdrant_results' = <<>>
    /\ result' = <<>>
    /\ outcome' = "returned"
    /\ faults' = f
    /\ calls' = {}

\* HybridSearchSystem.hybrid_search(query, limit)
hybrid_search ==
    /\ engine = "hybrid_search"
    /\ \E q \in SearchQueries, n \in LimitChoices, f \in FaultChoices :
          IF IsBlank(q) THEN ReturnsEmpty(q, n, <<0, 0>>, f)
          ELSE \E precomputed \in Answers(PrecomputedRows(graph), NeoLimit),
                  fulltext    \in Answers(FulltextRows(graph), NeoLimit),
                  attribute   \in Answers(AttributeRows(graph), NeoLimit),
                  nearest     \in Answers(points, QdrantLimit) :
                  LET a == QueryAnalysis[q]
                      w == SelectWeights(a)
                      neo4j  == search_neo4j(Handled(precomputed, f.precomputed),
                                             Handled(fulltext, FulltextFailure(f.fulltext)),
                                             Handled(attribute, f.attribute))
                      qdrant == IF f.lookup THEN <<>> ELSE search_qdrant(nearest)
                  IN  /\ query' = q
                      /\ limit' = n
                      /\ analysis' = a
                      /\ weights' = w
                      /\ neo4j_results' = neo4j
                      /\ faults' = f
                      /\ IF f.encode
                         THEN \* model.encode raises out of search_qdrant
                              /\ qdrant_results' = <<>>
                              /\ result' = <<>>
                              /\ outcome' = "raised"
                              /\ calls' = {"analyze_query", "_normalize_search_terms",
                                           "neo4j", "encode"}
                         ELSE /\ qdrant_results' = qdrant
                              /\ result' = Fuse(neo4j, qdrant, w, n)
                              /\ outcome' = "returned"
                              /\ calls' = {"analyze_query", "_normalize_search_terms",
                                           "neo4j", "encode", "qdrant"}
    /\ pc' = "searched"
    /\ UNCHANGED <<mode, codeVars, fuzzyVars, fulltextVars, normalizeVars, storeVars, engineVars, fusionVars>>

\* EnhancedHybridSearch.enhanced_hybrid_search(query, neo4j_weight, qdrant_weight)
enhanced_hybrid_search ==
    /\ engine = "enhanced_hybrid_search"
    /\ \E q \in SearchQueries, w \in WeightChoices, f \in FaultChoices :
          IF IsBlank(q) THEN ReturnsEmpty(q, TopK, w, f)
          ELSE IF IsProductCodeQuery(q)
          THEN \E exact    \in Answers(PrecomputedRows(graph), EnhancedLimit),
                  fulltext \in Answers(CodeFulltextRows(graph), EnhancedLimit) :
                  LET neo4j == search_product_codes_exact(
                                   Handled(exact, f.precomputed),
                                   Handled(fulltext, FulltextFailure(f.fulltext)))
                  IN  /\ query' = q
                      /\ limit' = TopK
                      /\ analysis' = BlankAnalysis
                      /\ weights' = w
                      /\ neo4j_results' = neo4j
                      /\ qdrant_results' = <<>>
                      /\ result' = IF neo4j # <<>> THEN ExactResults(neo4j) ELSE <<>>
                      /\ outcome' = "returned"
                      /\ faults' = f
                      /\ calls' = {"normalize_search_input_enhanced", "neo4j"}
          ELSE \E fuzzy     \in Answers(FuzzyRows(graph), EnhancedLimit),
                  fulltext  \in Answers(FulltextRows(graph), EnhancedLimit),
                  corrected \in (IF CorrectedTerms(q) # {}
                                 THEN Answers(FulltextRows(graph), EnhancedLimit)
                                 ELSE {<<>>}),
                  attribute \in Answers(AttributeRows(graph), EnhancedLimit),
                  nearest   \in Answers(points, EnhancedLimit) :
                  LET neo4j  == search_neo4j_enhanced(
                                    Handled(fuzzy, f.precomputed),
                                    Handled(fulltext, FulltextFailure(f.fulltext)),
                                    HandledAfter(fulltext, corrected, FulltextFailure(f.fulltext)),
                                    Handled(attribute, f.attribute))
                      qdrant == IF f.lookup THEN <<>> ELSE search_qdrant_enhanced(nearest)
                  IN  /\ query' = q
                      /\ limit' = TopK
                      /\ analysis' = BlankAnalysis
                      /\ weights' = w
                      /\ neo4j_results' = neo4j
                      /\ faults' = f
                      /\ IF f.encode
                         THEN \* model.encode raises out of search_qdrant
                              /\ qdrant_results' = <<>>
                              /\ result' = <<>>
                              /\ outcome' = "raised"
                              /\ calls' = {"normalize_search_input_enhanced",
                                           "neo4j", "encode"}
                         ELSE /\ qdrant_results' = qdrant
                              /\ result' = EnhancedFuse(neo4j, qdrant, w, q,
                                                        JELLYFISH_AVAILABLE)
                              /\ outcome' = "returned"
                              /\ calls' = {"normalize_search_input_enhanced",
                                           "neo4j", "encode", "qdrant"}
    /\ pc' = "searched"
    /\ UNCHANGED <<mode, codeVars, fuzzyVars, fulltextVars, normalizeVars, storeVars, engineVars, fusionVars>>

\* one search of a newly constructed engine
FirstHybridSearch ==
    /\ mode = "search"
    /\ pc = "start"
    /\ hybrid_search
    /\ UNCHANGED previous

FirstEnhancedSearch ==
    /\ mode = "search"
    /\ pc = "start"
    /\ enhanced_hybrid_search
    /\ UNCHANGED previous

NextSearch == FirstHybridSearch \/ FirstEnhancedSearch

SpecSearch == InitSearch /\ [][NextSearch]_vars

---------------------------------------------------------------------------
(* The fusion formulas on their own: a product of both lists against a     *)
(* product of one list with the same rank and score in it                  *)

MaxRank == 3    \* ranks 1 .. MaxRank in either list

\* neo4j_weight and qdrant_weight, in tenths: the four pairs of
\* hybrid_search, the default of enhanced_hybrid_search, and the two ends
FusionWeights == {<<8, 2>>, <<3, 7>>, <<7, 3>>, <<5, 5>>, <<6, 4>>, <<10, 0>>, <<0, 10>>}

\* per-source scores after normalization
UnitScores == {Zero, Rat(1, 2), Rat(1000, 1001), One}

InitFusion ==
    /\ mode = "fusion"
    /\ pc = "start"
    /\ query = <<>>
    /\ analysis = BlankAnalysis
    /\ weights \in FusionWeights
    /\ terms = {}
    /\ rawScores = <<>>
    /\ normScores = <<>>
    /\ graph = <<>>
    /\ points = <<>>
    /\ engine \in Engines
    /\ JELLYFISH_AVAILABLE = FALSE
    /\ limit = 0
    /\ neo4j_results = <<>>
    /\ qdrant_results = <<>>
    /\ result = <<>>
    /\ outcome = "none"
    /\ compared = <<>>
    /\ similarity = <<0, 1>>
    /\ issued = <<>>
    /\ previous = <<>>
    /\ fusion \in [neo4j_rank : 1..MaxRank, qdrant_rank : 1..MaxRank,
                   neo4j_score : UnitScores, qdrant_score : UnitScores,
                   both : {Zero}, neo4j_only : {Zero}, qdrant_only : {Zero}]
    /\ faults = NoFaults
    /\ calls = {}
    /\ indexes = SearchIndexes

\* the final_score hybrid_search gives to a product of both lists, of the
\* Neo4j list only and of the Qdrant list only
FuseHybrid ==
    /\ mode = "fusion"
    /\ pc = "start"
    /\ engine = "hybrid_search"
    /\ pc' = "fused"
    /\ LET lexical == LexicalScore(Weight(weights[1]), fusion.neo4j_rank, fusion.neo4j_score)
       IN  fusion' = [fusion EXCEPT
                        !.both = BoostedScore(lexical, Weight(weights[2]), fusion.qdrant_rank),
                        !.neo4j_only = lexical,
                        !.qdrant_only = SemanticScore(Weight(weights[2]), fusion.qdrant_rank)]
    /\ UNCHANGED <<mode, query, analysisVars, codeVars, fuzzyVars, fulltextVars, normalizeVars, storeVars,
                   engineVars, searchVars>>

\* the combined_score enhanced_hybrid_search gives to the three, before the
\* post-processing
FuseEnhanced ==
    /\ mode = "fusion"
    /\ pc = "start"
    /\ engine = "enhanced_hybrid_search"
    /\ pc' = "fused"
    /\ fusion' = [fusion EXCEPT
                    !.both = BothShares(Weight(weights[1]), fusion.neo4j_score,
                                        Weight(weights[2]), fusion.qdrant_score),
                    !.neo4j_only = LexicalShare(Weight(weights[1]), fusion.neo4j_score),
                    !.qdrant_only = SemanticShare(Weight(weights[2]), fusion.qdrant_score)]
    /\ UNCHANGED <<mode, query, analysisVars, codeVars, fuzzyVars, fulltextVars, normalizeVars, storeVars,
                   engineVars, searchVars>>

NextFusion == FuseHybrid \/ FuseEnhanced

SpecFusion == InitFusion /\ [][NextFusion]_vars

---------------------------------------------------------------------------
(* Repeated searches of one engine                                         *)

\* the stores of the repeated searches: a product is a full-text hit or no
\* hit at all, and the vector store has at most one point near the query
HistoryGraphAnswers ==
    {a \in GraphAnswers :
        a.matches = 0 /\ a.attributes = 0 /\ a.fulltext \in {Zero, Rat(2, 1)}}

HistoryPoints == {p \in NearestPoints : Len(p) <= 1}

InitHistory ==
    /\ mode = "history"
    /\ pc = "start"
    /\ query = <<>>
    /\ analysis = BlankAnalysis
    /\ weights = <<0, 0>>
    /\ terms = {}
    /\ rawScores = <<>>
    /\ normScores = <<>>
    /\ graph \in [Products -> HistoryGraphAnswers]
    /\ points \in HistoryPoints
    /\ engine \in Engines
    /\ JELLYFISH_AVAILABLE \in (IF engine = "hybrid_search" THEN {FALSE} ELSE BOOLEAN)
    /\ limit = 0
    /\ neo4j_results = <<>>
    /\ qdrant_results = <<>>
    /\ result = <<>>
    /\ outcome = "none"
    /\ compared = <<>>
    /\ similarity = <<0, 1>>
    /\ issued = <<>>
    /\ previous = <<>>
    /\ fusion = <<>>
    /\ faults = NoFaults
    /\ calls = {}
    /\ indexes = SearchIndexes

\* the first search is kept for comparison when the second one begins
Remember ==
    previous' = IF pc = "searched" /\ previous = <<>>
                THEN <<[query |-> query, limit |-> limit, weights |-> weights,
                        result |-> result]>>
                ELSE previous

RepeatedHybridSearch ==
    /\ mode = "history"
    /\ Remember
    /\ hybrid_search

RepeatedEnhancedSearch ==
    /\ mode = "history"
    /\ Remember
    /\ enhanced_hybrid_search

NextHistory == RepeatedHybridSearch \/ RepeatedEnhancedSearch

SpecHistory == InitHistory /\ [][NextHistory]_vars

---------------------------------------------------------------------------
(* Searches during which calls to the stores and to the encoder fail       *)

\* the stores of the failing searches: full-text relevance is 2.0 or none,
\* and the vector store has at most one point near the query
FaultGraphAnswers == {a \in GraphAnswers : a.fulltext \in {Zero, Rat(2, 1)}}

FaultPoints ==
    {p \in NearestPoints : Len(p) <= 1 /\ \A i \in DOMAIN p : p[i].score = Rat(9, 10)}

InitFaults ==
    /\ mode = "faults"
    /\ pc = "start"
    /\ query = <<>>
    /\ analysis = BlankAnalysis
    /\ weights = <<0, 0>>
    /\ terms = {}
    /\ rawScores = <<>>
    /\ normScores = <<>>
    /\ graph \in [Products -> FaultGraphAnswers]
    /\ points \in FaultPoints
    /\ engine \in Engines
    /\ JELLYFISH_AVAILABLE = FALSE
    /\ limit = 0
    /\ neo4j_results = <<>>
    /\ qdrant_results = <<>>
    /\ result = <<>>
    /\ outcome = "none"
    /\ compared = <<>>
    /\ similarity = <<0, 1>>
    /\ issued = <<>>
    /\ previous = <<>>
    /\ fusion = <<>>
    /\ faults = NoFaults
    /\ calls = {}
    /\ indexes = SearchIndexes

FailingHybridSearch ==
    /\ mode = "faults"
    /\ pc = "start"
    /\ hybrid_search
    /\ UNCHANGED previous

FailingEnhancedSearch ==
    /\ mode = "faults"
    /\ pc = "start"
    /\ enhanced_hybrid_search
    /\ UNCHANGED previous

NextFaults == FailingHybridSearch \/ FailingEnhancedSearch

SpecFaults == InitFaults /\ [][NextFaults]_vars

---------------------------------------------------------------------------
(* Construction of the search components, and the searches that follow     *)

\* the components: the two hybrid engines and ProductSearchSystem, the
\* graph-only search of search_neo4j.py and search_neo4j_latest.py
Components == Engines \cup {"search_products"}

\* the graph stores a component is constructed over: an empty catalogue, or
\* the two products with or without a full-text hit; and the indexes left
\* by the loader, by a loader that made no full-text index, and by none
ConstructGraphs == {<<>>} \cup [Products -> HistoryGraphAnswers]

IndexSets == {SearchIndexes, SearchIndexes \ {"product_search"}, {}}

InitConstruct ==
    /\ mode = "construct"
    /\ pc = "unconstructed"
    /\ query = <<>>
    /\ analysis = BlankAnalysis
    /\ weights = <<0, 0>>
    /\ terms = {}
    /\ rawScores = <<>>
    /\ normScores = <<>>
    /\ graph \in ConstructGraphs
    /\ points \in HistoryPoints
    /\ engine \in Components
    /\ JELLYFISH_AVAILABLE = FALSE
    /\ limit = 0
    /\ neo4j_results = <<>>
    /\ qdrant_results = <<>>
    /\ result = <<>>
    /\ outcome = "none"
    /\ compared = <<>>
    /\ similarity = <<0, 1>>
    /\ issued = <<>>
    /\ previous = <<>>
    /\ fusion = <<>>
    /\ faults = NoFaults
    /\ calls = {}
    /\ indexes \in IndexSets

\* MATCH (p:Product) RETURN count(p)
ProductCount == Cardinality(DOMAIN graph)

\* any('product_search' in str(idx) for idx in indexes): the name is looked
\* for as a substring of each listed index
MentionsProductSearch(idx) ==
    idx \in {"product_search", "product_search_terms_index"}

\* HybridSearchSystem.__init__: sys.exit(1) when a store cannot be reached
\* or the graph store has no product
ConstructHybridSearchSystem ==
    /\ mode = "construct"
    /\ pc = "unconstructed"
    /\ engine = "hybrid_search"
    /\ \E reachable \in BOOLEAN :
          pc' = IF reachable /\ ProductCount # 0 THEN "start" ELSE "exited"
    /\ UNCHANGED <<mode, query, analysisVars, codeVars, fuzzyVars, fulltextVars, normalizeVars, storeVars,
                   engineVars, searchVars, fusionVars>>

\* EnhancedHybridSearch.__init__: sys.exit(1) when a store cannot be reached
ConstructEnhancedHybridSearch ==
    /\ mode = "construct"
    /\ pc = "unconstructed"
    /\ engine = "enhanced_hybrid_search"
    /\ \E reachable \in BOOLEAN :
          pc' = IF reachable THEN "start" ELSE "exited"
    /\ UNCHANGED <<mode, query, analysisVars, codeVars, fuzzyVars, fulltextVars, normalizeVars, storeVars,
                   engineVars, searchVars, fusionVars>>

\* create_search_index: DROP INDEX product_search IF EXISTS, then
\* CREATE FULLTEXT INDEX product_search
create_search_index(names) == (names \ {"product_search"}) \cup {"product_search"}

\* ProductSearchSystem.__init__ and verify_connection
ConstructProductSearchSystem ==
    /\ mode = "construct"
    /\ pc = "unconstructed"
    /\ engine = "search_products"
    /\ \E reachable \in BOOLEAN :
          IF ~reachable \/ ProductCount = 0
          THEN pc' = "exited" /\ UNCHANGED indexes
          ELSE /\ pc' = "start"
               /\ indexes' = IF \E idx \in indexes : MentionsProductSearch(idx)
                             THEN indexes
                             ELSE create_search_index(indexes)
    /\ UNCHANGED <<mode, query, analysisVars, codeVars, fuzzyVars, fulltextVars, normalizeVars, graph, points,
                   engineVars, searchVars, fusionVars>>

\* the searches of a constructed engine, one after another
ConstructedHybridSearch ==
    /\ mode = "construct"
    /\ pc \in {"start", "searched"}
    /\ hybrid_search
    /\ UNCHANGED previous

ConstructedEnhancedSearch ==
    /\ mode = "construct"
    /\ pc \in {"start", "searched"}
    /\ enhanced_hybrid_search
    /\ UNCHANGED previous

NextConstruct ==
    \/ ConstructHybridSearchSystem
    \/ ConstructEnhancedHybridSearch
    \/ ConstructProductSearchSystem
    \/ ConstructedHybridSearch
    \/ ConstructedEnhancedSearch

SpecConstruct == InitConstruct /\ [][NextConstruct]_vars

---------------------------------------------------------------------------
(* Properties of the query analysis (checked under SpecAnalysis)           *)

\* "a hyphen-joined run of alphanumeric groups" somewhere in u
HasHyphenJoinedRun(u) ==
    \E i \in 1..Len(u) : \E j \in i..Len(u) : HyphenatedRun(u, i, j)

\* "a single alphanumeric token of at least 4 characters that itself contains
\* both a letter and a digit": u[i..j] is a whole token
HasMixedToken(u) ==
    \E i \in 1..Len(u) : \E j \in i..Len(u) :
        /\ WordBoundary(u, i)
        /\ CodeRun(u, i, j)
        /\ WordBoundary(u, j + 1)
        /\ j - i + 1 >= 4
        /\ \E k \in i..j : IsUpper(u[k])
        /\ \E k \in i..j : IsDigit(u[k])

DocumentedProductCode(q) ==
    LET u == Upper(q) IN HasHyphenJoinedRun(u) \/ HasMixedToken(u)

Analysed == mode = "analysis" /\ pc \in {"analysed", "weighted"}
Weighted == mode = "analysis" /\ pc = "weighted"

\* C4: has_product_code is true exactly when the upper-cased query holds a
\* hyphen-joined run of alphanumeric groups or a single alphanumeric token of
\* at least 4 characters with a letter and a digit in it.
C4_ProductCodeExactly ==
    Analysed => (analysis.has_product_code <=> DocumentedProductCode(query))

\* C5: the weights follow the first rule that fires, in the order product code,
\* descriptive, attributes, default; one of the four pairs is always chosen.
C5_FirstMatchWins ==
    Weighted =>
        /\ weights \in {<<8, 2>>, <<3, 7>>, <<7, 3>>, <<5, 5>>}
        /\ analysis.has_product_code => weights = <<8, 2>>
        /\ (~analysis.has_product_code /\ analysis.is_descriptive)
              => weights = <<3, 7>>
        /\ (~analysis.has_product_code /\ ~analysis.is_descriptive
               /\ analysis.has_attributes) => weights = <<7, 3>>
        /\ (~analysis.has_product_code /\ ~analysis.is_descriptive
               /\ ~analysis.has_attributes) => weights = <<5, 5>>

\* a query on which all three rules fire at once and the first one wins
C5_Witness ==
    /\ Weighted
    /\ analysis.has_product_code
    /\ analysis.is_descriptive
    /\ analysis.has_attributes
    /\ weights = <<8, 2>>

\* C6: a query of at most 5 tokens that holds ':' or '=' or an attribute
\* keyword, and no product code as documented, is fused with (0.7, 0.3).
C6_AttributeQueryWeights ==
    (/\ Weighted
     /\ TokenCount(query) <= 5
     /\ HasAttributes(query)
     /\ ~DocumentedProductCode(query))
        => weights = <<7, 3>>

---------------------------------------------------------------------------
(* Properties of the code variations (checked under SpecCodes)             *)

\* c is a hyphenated product code: alphanumeric groups joined by hyphens
IsHyphenatedCode(c) == HyphenatedRun(Upper(c), 1, Len(c))

\* upper- and lower-case forms with the hyphens kept, removed, and replaced
\* by a space
SixForms(c) ==
    { Upper(c), Lower(c),
      Upper(Replace(c, "-", <<>>)), Lower(Replace(c, "-", <<>>)),
      Upper(Replace(c, "-", <<" ">>)), Lower(Replace(c, "-", <<" ">>)) }

---------------------------------------------------------------------------
(* Properties of normalize_scores (checked under SpecNormalize)            *)

Normalized == mode = "normalize" /\ pc = "normalized"

---------------------------------------------------------------------------
(* Properties of one search (checked under SpecSearch)                     *)

Searched == mode = "search" /\ pc = "searched" /\ outcome = "returned"

Ids(list) == {list[i].id : i \in DOMAIN list}

\* C1: whatever the query and the stores, a search asked for limit >= 0
\* results returns at most that many; the enhanced engine, which takes no
\* limit, returns at most its fixed 15.
C1_LengthAtMostLimit ==
    Searched =>
        /\ engine = "hybrid_search" /\ limit >= 0 => Len(result) <= limit
        /\ engine = "enhanced_hybrid_search" => Len(result) <= TopK

\* three products were candidates, two were asked for and two returned
C1_Witness ==
    /\ Searched
    /\ engine = "hybrid_search"
    /\ limit = 2
    /\ Cardinality(Ids(neo4j_results) \cup Ids(qdrant_results)) = 3
    /\ Len(result) = 2

InUnitInterval(x) == RatLeq(Zero, x) /\ RatLeq(x, One)

\* C2: each per-source score of a returned candidate's breakdown, the
\* neo4j_score and the qdrant_score, is within [0, 1], whatever raw scores
\* the stores returned.
C2_ScoresInUnitInterval ==
    Searched =>
        \A i \in DOMAIN result :
            /\ result[i].has_neo4j => InUnitInterval(result[i].neo4j_score)
            /\ result[i].has_qdrant => InUnitInterval(result[i].qdrant_score)

NonIncreasing(list) ==
    \A i \in 1..(Len(list) - 1) : RatLeq(list[i + 1].final_score, list[i].final_score)

\* the semantic retriever returned nothing and the lexical one something
SemanticEmpty == Searched /\ qdrant_results = <<>> /\ neo4j_results # <<>>

\* the list is not empty, is in non-increasing order of final score, and
\* each of its candidates is one of the lexical retriever's, with a score
\* that is defined and has no semantic part
DegradedGracefully ==
    /\ result # <<>>
    /\ NonIncreasing(result)
    /\ \A i \in DOMAIN result :
          /\ result[i].id \in Ids(neo4j_results)
          /\ result[i].has_neo4j /\ ~result[i].has_qdrant
          /\ result[i].qdrant_score = Zero
          /\ result[i].final_score[2] > 0
          /\ result[i].neo4j_score[2] > 0
          /\ engine = "hybrid_search" =>
                result[i].final_score =
                    LexicalScore(Weight(weights[1]), result[i].neo4j_rank,
                                 result[i].neo4j_score)
          /\ engine = "enhanced_hybrid_search" /\ IsProductCodeQuery(query) =>
                result[i].final_score = result[i].neo4j_score
          /\ engine = "enhanced_hybrid_search" /\ ~IsProductCodeQuery(query) =>
                LET bonus == NameBonus(query, result[i].name, JELLYFISH_AVAILABLE)
                IN  result[i].final_score =
                        RatAdd(LexicalShare(Weight(weights[1]), result[i].neo4j_score),
                               RatAdd(bonus.fuzzy_bonus, bonus.word_bonus))

\* C10 as stated: whenever the semantic retriever returns an empty set and
\* the lexical one at least one candidate, the search returns a non-empty
\* list in non-increasing order of final score, with scores that are
\* defined and come from the lexical signal only.
C10_GracefulDegradation == SemanticEmpty => DegradedGracefully

\* C10, amended: the same for every requested limit of at least 1 (a
\* search asked for 0 results returns the empty list).
C10_GracefulDegradationAmended == SemanticEmpty /\ limit >= 1 => DegradedGracefully

\* two lexical candidates, no semantic one, and both are returned
C10_Witness ==
    /\ SemanticEmpty
    /\ engine = "hybrid_search"
    /\ limit = 2
    /\ Len(neo4j_results) = 2
    /\ Len(result) = 2
    /\ RatLess(result[2].final_score, result[1].final_score)

---------------------------------------------------------------------------
(* Properties of the fusion formulas (checked under SpecFusion)            *)

Fused == mode = "fusion" /\ pc = "fused"

---------------------------------------------------------------------------
(* Properties of repeated searches (checked under SpecHistory)             *)

\* C3: a search with the query, limit and weights of an earlier search of
\* the same engine returns the same candidates in the same order with the
\* same scores, whatever was searched in between and in whatever order the
\* stores return rows of equal score.
C3_SameSearchSameResult ==
    mode = "history" /\ previous # <<>>
        /\ previous[1].query = query
        /\ previous[1].limit = limit
        /\ previous[1].weights = weights
    => previous[1].result = result

---------------------------------------------------------------------------
(* Properties of searches with failing calls (checked under SpecFaults)    *)

FaultySearchEnded == mode = "faults" /\ pc = "searched"

\* the search got as far as search_qdrant, and the embedding of the query
\* or the lookup in the vector store failed there
SemanticFailed == "encode" \in calls /\ (faults.encode \/ faults.lookup)

\* C11: when the embedding of the query or the vector-store lookup fails,
\* the semantic retriever hands back an empty result rather than raising,
\* and the search returns normally with candidates of the lexical retriever
\* only: all of them when they fit the limit.
C11_SemanticFailureContained ==
    FaultySearchEnded /\ SemanticFailed =>
        /\ outcome = "returned"
        /\ qdrant_results = <<>>
        /\ Ids(result) \subseteq Ids(neo4j_results)
        /\ Len(neo4j_results) <= limit => Ids(result) = Ids(neo4j_results)


\* what a failing sub-strategy should contribute: nothing
Quiet(rows, failure) == IF failure.fails THEN <<>> ELSE rows

\* the lists the lexical retriever can hand back when each failing
\* sub-strategy contributes nothing and every other one what it returns
UnaffectedLexical ==
    IF engine = "hybrid_search"
    THEN {search_neo4j(Quiet(precomputed, faults.precomputed),
                       Quiet(fulltext, faults.fulltext),
                       Quiet(attribute, faults.attribute)) :
              precomputed \in Answers(PrecomputedRows(graph), NeoLimit),
              fulltext    \in Answers(FulltextRows(graph), NeoLimit),
              attribute   \in Answers(AttributeRows(graph), NeoLimit)}
    ELSE IF IsProductCodeQuery(query)
    THEN {search_product_codes_exact(Quiet(exact, faults.precomputed),
                                     Quiet(fulltext, faults.fulltext)) :
              exact    \in Answers(PrecomputedRows(graph), EnhancedLimit),
              fulltext \in Answers(CodeFulltextRows(graph), EnhancedLimit)}
    ELSE {search_neo4j_enhanced(Quiet(fuzzy, faults.precomputed),
                                Quiet(fulltext, faults.fulltext),
                                Quiet(corrected, faults.fulltext),
                                Quiet(attribute, faults.attribute)) :
              fuzzy     \in Answers(FuzzyRows(graph), EnhancedLimit),
              fulltext  \in Answers(FulltextRows(graph), EnhancedLimit),
              corrected \in (IF CorrectedTerms(query) # {}
                             THEN Answers(FulltextRows(graph), EnhancedLimit)
                             ELSE {<<>>}),
              attribute \in Answers(AttributeRows(graph), EnhancedLimit)}

\* C12: whichever of the three lexical sub-strategies fail, and wherever in
\* their execution, the lexical retriever returns to its caller, and what
\* it returns is what the sub-strategies that did not fail make of their
\* rows: no score and no provenance tag comes from a failing one.
C12_FailingStrategyContributesNothing ==
    FaultySearchEnded /\ "neo4j" \in calls => neo4j_results \in UnaffectedLexical

---------------------------------------------------------------------------
(* Properties of the merge of the lexical sub-strategies (checked under    *)
(* SpecSearch)                                                             *)

\* the weighted score a sub-strategy gives on its own to a product it
\* returns with the raw score raw: the score of the entry it makes when it
\* is the only one to return the product
OwnScore(raw, factor) == RatMul(raw, factor)

\* the sum of the sub-strategies' own weighted scores for product p, in the
\* retriever the search used; a sub-strategy that does not return p adds 0
SumOfOwnScores(p) ==
    LET matches    == Rat(graph[p].matches, 1)
        attributes == Rat(graph[p].attributes, 1)
        fulltext   == graph[p].fulltext
    IN  IF engine = "hybrid_search"
        THEN RatAdd(RatAdd(OwnScore(matches, PrecomputedFactor),
                           OwnScore(fulltext, FulltextFactor)),
                    OwnScore(attributes, AttributeFactor))
        ELSE IF IsProductCodeQuery(query)
        THEN RatAdd(OwnScore(matches, ExactCodeFactor),
                    IF RatLess(CodeFulltextMinimum, fulltext)
                    THEN OwnScore(fulltext, CodeFulltextFactor) ELSE Zero)
        ELSE RatAdd(RatAdd(RatAdd(OwnScore(RatMul(matches, ExactMatchScore), FuzzyFactor),
                                  OwnScore(fulltext, EnhancedFulltextFactor)),
                           IF CorrectedTerms(query) # {}
                           THEN OwnScore(fulltext, CorrectedFactor) ELSE Zero),
                    OwnScore(attributes, EnhancedAttributeFactor))

MergedScore(entry) ==
    IF engine = "hybrid_search" THEN entry.neo4j_score ELSE entry.score

\* C13: the lexical score the merge gives to a product is the sum of the
\* weighted scores of the sub-strategies that returned it, each weighted as
\* it is when it is the only one to return the product; so the merged
\* scores do not depend on which sub-strategy entered the product first.
C13_MergeIsAdditive ==
    Searched /\ "neo4j" \in calls =>
        \A i \in DOMAIN neo4j_results :
            MergedScore(neo4j_results[i]) = SumOfOwnScores(neo4j_results[i].id)

---------------------------------------------------------------------------
(* Properties of the course of one search (checked under SpecSearch)       *)

\* the search called the encoder or the vector store
SemanticInvoked == "encode" \in calls \/ "qdrant" \in calls

\* C14: a search whose query has has_product_code set by the analysis never
\* invokes the semantic retriever, gives every returned candidate its
\* normalized lexical score as final score, and returns at most 15.
C14_CodeShortCircuit ==
    Searched /\ analyze_query(query).has_product_code =>
        /\ ~SemanticInvoked
        /\ \A i \in DOMAIN result : result[i].final_score = result[i].neo4j_score
        /\ Len(result) <= TopK

---------------------------------------------------------------------------
(* Properties of the search of a blank query (checked under SpecFaults)    *)

WhitespaceOnly(q) == \A i \in DOMAIN q : q[i] = " "

\* C15: the search of an empty or whitespace-only query returns the empty
\* list and raises nothing, whatever calls would have failed, and it
\* invokes nothing: no analysis, no term normalization, no graph-store
\* call, no embedding and no vector-store call.
C15_BlankQueryReturnsEmpty ==
    FaultySearchEnded /\ WhitespaceOnly(query) =>
        /\ outcome = "returned"
        /\ result = <<>>
        /\ calls = {}
        /\ analysis = BlankAnalysis
        /\ neo4j_results = <<>>
        /\ qdrant_results = <<>>

\* a whitespace-only query was searched over a store with hits while the
\* encoder and the graph store were failing
C15_Witness ==
    /\ FaultySearchEnded
    /\ query = <<" ">>
    /\ faults.encode
    /\ faults.precomputed.fails
    /\ \E p \in Products : graph[p].matches > 0
    /\ outcome = "returned"
    /\ result = <<>>


\* C16: a returned list is in non-increasing order of final score, and of
\* two adjacent candidates with the same final score the one with the
\* smaller product id comes first, in whatever order the stores returned
\* their rows.
C16_TiesInAscendingIdOrder ==
    Searched =>
        /\ NonIncreasing(result)
        /\ \A i \in 1..(Len(result) - 1) :
              result[i].final_score = result[i + 1].final_score =>
                  result[i].id <= result[i + 1].id

---------------------------------------------------------------------------
(* Properties of searches both of whose sources fail (checked under        *)
(* SpecFaults)                                                             *)

\* every sub-strategy of the lexical retriever failed
LexicalFailed ==
    faults.precomputed.fails /\ faults.fulltext.fails /\ faults.attribute.fails

\* C17: when every lexical sub-strategy fails and the embedding or the
\* vector-store lookup fails too, the search of a non-empty query returns
\* the empty list and raises nothing.
C17_TotalFailureReturnsEmpty ==
    FaultySearchEnded /\ ~WhitespaceOnly(query) /\ LexicalFailed /\ SemanticFailed =>
        outcome = "returned" /\ result = <<>>

---------------------------------------------------------------------------
(* Properties of the components' effect on the stores (checked under       *)
(* SpecConstruct)                                                          *)

\* C18: no step of a search component, its construction or one of its
\* searches, changes the graph store (products and indexes) or the vector
\* store.
C18_StoresUnchanged == [][UNCHANGED <<graph, points, indexes>>]_vars

---------------------------------------------------------------------------
(* Properties of the per-source contributions (checked under SpecFusion)   *)

\* weight x (0.7 x 1/(rank + 10) + 0.3 x normalized_score)
Contribution(weight, rank, normalized_score) ==
    RatMul(weight, RatAdd(RatMul(Rat(7, 10), Rat(1, rank + 10)),
                          RatMul(Rat(3, 10), normalized_score)))

\* C19: what a source contributes to the final score of a candidate is its
\* fusion weight times (0.7 x 1/(rank + 10) + 0.3 x normalized score), with
\* the candidate's rank and normalized score in that source, and this is
\* so for the lexical source and for the semantic source alike.
C19_SameFormulaForBothSources ==
    Fused =>
        /\ fusion.neo4j_only =
              Contribution(Weight(weights[1]), fusion.neo4j_rank, fusion.neo4j_score)
        /\ fusion.qdrant_only =
              Contribution(Weight(weights[2]), fusion.qdrant_rank, fusion.qdrant_score)

---------------------------------------------------------------------------
(* Properties of the cross-source bonus of hybrid_search (checked under    *)
(* SpecSearch)                                                             *)

\* the ranks at which the semantic result lists product pid
QdrantRanks(pid) == {k \in DOMAIN qdrant_results : qdrant_results[k].id = pid}

\* the sum of the semantic contributions of the ranks in S
RECURSIVE SemanticSum(_)
SemanticSum(S) ==
    IF S = {} THEN Zero
    ELSE LET k == CHOOSE x \in S : TRUE
         IN  RatAdd(SemanticScore(Weight(weights[2]), k), SemanticSum(S \ {k}))

\* the summed score of a returned candidate: its lexical contribution, if
\* the lexical result has it, plus its semantic contributions
SummedScore(r) ==
    RatAdd(IF r.has_neo4j
           THEN LexicalScore(Weight(weights[1]), r.neo4j_rank, r.neo4j_score)
           ELSE Zero,
           SemanticSum(QdrantRanks(r.id)))

\* C20: the final score of a candidate of hybrid_search is 1.2 times its
\* summed score when the candidate is in the lexical and in the semantic
\* result, and the summed score itself when it is in one of them only,
\* also when the semantic result lists the same product id more than once.
C20_BonusExactlyOnce ==
    Searched /\ engine = "hybrid_search" =>
        \A i \in DOMAIN result :
            result[i].final_score =
                IF result[i].has_neo4j /\ QdrantRanks(result[i].id) # {}
                THEN RatMul(SummedScore(result[i]), Rat(6, 5))
                ELSE SummedScore(result[i])


---------------------------------------------------------------------------
(* Properties of the candidates of one search (checked under SpecSearch)   *)

\* no two entries of the list carry the same product id
UniqueIds(list) ==
    \A i, j \in DOMAIN list : list[i].id = list[j].id => i = j

\* C21: a search holds at most one candidate for a product id: the merged
\* lexical result, the semantic result of the enhanced search and the
\* returned list each have at most one entry per product id, whatever the
\* number of strategies or retrievers that produced the product.
C21_OneCandidatePerProduct ==
    Searched =>
        /\ UniqueIds(result)
        /\ UniqueIds(neo4j_results)
        /\ engine = "enhanced_hybrid_search" => UniqueIds(qdrant_results)

\* hybrid_search returned a product that two lexical strategies and two
\* semantic rows produced
C21_Witness ==
    /\ Searched
    /\ engine = "hybrid_search"
    /\ \E i \in DOMAIN result :
          /\ Len(result[i].neo4j_methods) >= 2
          /\ Cardinality(QdrantRanks(result[i].id)) >= 2


---------------------------------------------------------------------------
(* The term set of FuzzySearchEnhancer.normalize_search_input_enhanced,    *)
(* with NLTK not installed: the stemmer is simple_stem and the stop words  *)
(* are _get_basic_stopwords                                                *)

EndsWith(word, suffix) ==
    /\ Len(word) >= Len(suffix)
    /\ SubSeq(word, Len(word) - Len(suffix) + 1, Len(word)) = suffix

\* the suffixes of simple_stem with their minimal lengths, in its order
Suffixes ==
    << <<<<"i","n","g">>, 3>>, <<<<"e","d">>, 2>>, <<<<"e","r">>, 2>>,
       <<<<"e","s","t">>, 3>>, <<<<"l","y">>, 2>>, <<<<"t","i","o","n">>, 4>>,
       <<<<"n","e","s","s">>, 4>>, <<<<"m","e","n","t">>, 4>>,
       <<<<"a","b","l","e">>, 4>>, <<<<"i","b","l","e">>, 4>>,
       <<<<"f","u","l">>, 3>>, <<<<"l","e","s","s">>, 4>> >>

\* FuzzySearchEnhancer.simple_stem: the word without the first suffix of
\* the list that it ends with and is longer than the minimal length of
simple_stem(word) ==
    LET w    == Lower(word)
        hits == {k \in DOMAIN Suffixes :
                    Len(w) > Suffixes[k][2] /\ EndsWith(w, Suffixes[k][1])}
    IN  IF Len(w) <= 3 \/ hits = {} THEN w
        ELSE SubSeq(w, 1, Len(w) - Len(Suffixes[SetMin(hits)][1]))

\* the Soundex digit of an upper-case letter, "" when it has none
SoundexDigit(c) ==
    IF c \in {"B", "F", "P", "V"} THEN "1"
    ELSE IF c \in {"C", "G", "J", "K", "Q", "S", "X", "Z"} THEN "2"
    ELSE IF c \in {"D", "T"} THEN "3"
    ELSE IF c = "L" THEN "4"
    ELSE IF c \in {"M", "N"} THEN "5"
    ELSE IF c = "R" THEN "6"
    ELSE ""

RECURSIVE SoundexTail(_, _, _, _)
SoundexTail(s, i, last, acc) ==
    IF i > Len(s) \/ Len(acc) = 4 THEN acc
    ELSE LET digit == SoundexDigit(s[i])
         IN  IF digit # ""
             THEN SoundexTail(s, i + 1, digit,
                              IF digit # last THEN Append(acc, digit) ELSE acc)
             ELSE SoundexTail(s, i + 1, IF s[i] \in {"H", "W"} THEN last ELSE "", acc)

\* jellyfish.soundex(word)
Soundex(word) ==
    IF word = <<>> THEN <<>>
    ELSE LET s == Upper(word)
             t == SoundexTail(s, 2, SoundexDigit(s[1]), <<s[1]>>)
         IN  t \o [i \in 1..(4 - Len(t)) |-> "0"]

NotVowel(c) == c \notin {"a", "e", "i", "o", "u"}

\* FuzzySearchEnhancer.get_phonetic_code, with JELLYFISH_AVAILABLE handed
\* in as jellyfish
get_phonetic_code(word, jellyfish) ==
    IF jellyfish THEN Soundex(word)
    ELSE IF word = <<>> THEN <<>>
    ELSE LET w == Lower(word)
             r == <<w[1]>> \o SelectSeq(Tail(w), NotVowel)
             t == SubSeq(r, 1, IF Len(r) < 4 THEN Len(r) ELSE 4)
         IN  t \o [i \in 1..(4 - Len(t)) |-> "0"]

\* the partial terms of one word
PartialTerms(word) ==
    LET n == Len(word)
    IN  (IF n > 4 THEN {SubSeq(word, 1, 3), SubSeq(word, n - 2, n)} ELSE {})
          \cup (IF n > 6
                THEN {SubSeq(word, 1, 4), SubSeq(word, n - 3, n), SubSeq(word, 2, n - 1)}
                ELSE {})

\* the words of the query that the loop of normalize_search_input_enhanced
\* does not skip
KeptWords(query_clean) ==
    {w \in SplitSet(query_clean) : ~(Len(w) <= 1 \/ w \in BasicStopwords)}

\* the union of the fuzzy categories without the last one
AllTerms_NoPartial(r) ==
    r.original_terms \cup r.corrected_terms \cup r.stemmed_terms
        \cup r.phonetic_terms

\* the loop that fills results['all_terms']
AllTerms(r) ==
    r.original_terms \cup r.corrected_terms \cup r.stemmed_terms
        \cup r.phonetic_terms \cup r.partial_terms

\* FuzzySearchEnhancer.normalize_search_input_enhanced(query), with
\* JELLYFISH_AVAILABLE handed in as jellyfish
normalize_search_input_enhanced(q, jellyfish) ==
    LET query_clean == Strip(Lower(q))
        whole       == {query_clean, Strip(q)}
        words       == KeptWords(query_clean)
        misspelled  == {w \in words : w \in DOMAIN CommonMisspellings}
        fuzzy ==
            [original_terms  |-> whole \cup words,
             corrected_terms |-> {CommonMisspellings[w] : w \in misspelled},
             stemmed_terms   |-> {simple_stem(CommonMisspellings[w]) : w \in misspelled}
                                    \cup {simple_stem(w) : w \in words},
             phonetic_terms  |-> {get_phonetic_code(w, jellyfish) : w \in words},
             partial_terms   |-> UNION {PartialTerms(w) : w \in words},
             product_codes   |-> {},
             all_terms       |-> {},
             is_product_code_query |-> FALSE]
    IN  IF IsProductCodeQuery(q)
        THEN \* the early return
             [original_terms  |-> whole,
              corrected_terms |-> {},
              stemmed_terms   |-> {},
              phonetic_terms  |-> {},
              partial_terms   |-> {},
              product_codes   |-> GenerateEnhancedCodeVariations(q),
              all_terms       |-> {},
              is_product_code_query |-> TRUE]
        ELSE [fuzzy EXCEPT !.all_terms = AllTerms(fuzzy)]

MaxTermWords == 2    \* term queries: every word sequence up to this length

TermVocabulary ==
    { <<"t","h","e">>, <<"a">>, cabl, crane, <<"t","h","e","r","e">>,
      <<"t","e","s","t","i","n","g">>, <<"C","x","-","1">> }

TermQueries ==
    {<<>>} \cup {Join(ws) : ws \in UNION {[1..n -> TermVocabulary] : n \in 1..MaxTermWords}}

InitTerms ==
    /\ mode = "terms"
    /\ pc = "start"
    /\ query \in TermQueries
    /\ analysis = BlankAnalysis
    /\ weights = <<0, 0>>
    /\ terms = {}
    /\ rawScores = <<>>
    /\ normScores = <<>>
    /\ graph = <<>>
    /\ points = <<>>
    /\ engine = "none"
    /\ JELLYFISH_AVAILABLE \in BOOLEAN
    /\ previous = <<>>
    /\ fusion = <<>>
    /\ faults = NoFaults
    /\ calls = {}
    /\ indexes = SearchIndexes
    /\ limit = 0
    /\ neo4j_results = <<>>
    /\ qdrant_results = <<>>
    /\ result = <<>>
    /\ outcome = "none"
    /\ compared = <<>>
    /\ similarity = <<0, 1>>
    /\ issued = <<>>

\* fuzzy_enhancer.normalize_search_input_enhanced(query)
NormalizeSearchInput ==
    /\ mode = "terms"
    /\ pc = "start"
    /\ pc' = "normalized"
    /\ terms' = normalize_search_input_enhanced(query, JELLYFISH_AVAILABLE)
    /\ UNCHANGED <<mode, query, analysisVars, fuzzyVars, fulltextVars, normalizeVars, storeVars, engineVars, searchVars, fusionVars>>

NextTerms == NormalizeSearchInput

SpecTerms == InitTerms /\ [][NextTerms]_vars

---------------------------------------------------------------------------
(* Properties of the term set (checked under SpecTerms)                    *)

TermsNormalized == mode = "terms" /\ pc = "normalized"

\* the four categories that only the fuzzy processing fills
FuzzyOnly(r) ==
    r.corrected_terms \cup r.stemmed_terms \cup r.phonetic_terms \cup r.partial_terms

Categories(r) ==
    << r.original_terms, r.corrected_terms, r.stemmed_terms,
       r.phonetic_terms, r.partial_terms, r.product_codes >>

\* C23: the categories of a term set (original, corrected, stemmed,
\* phonetic, partial, product_codes) are pairwise disjoint: no string is
\* in two of them.
C23_CategoriesDisjoint ==
    TermsNormalized =>
        \A i, j \in 1..6 :
            i # j => Categories(terms)[i] \cap Categories(terms)[j] = {}

\* C24: for a query that is not a product code query, no stop word and no
\* string of length 1 is in original_terms or in all_terms.
C24_NoStopWordNoSingleCharacter ==
    TermsNormalized /\ ~terms.is_product_code_query =>
        \A t \in terms.original_terms \cup terms.all_terms :
            Len(t) # 1 /\ t \notin BasicStopwords


---------------------------------------------------------------------------
(* Properties of the query-side code variations (checked under SpecCodes)  *)

\* the query-side generator has run on a product code query
CodeQueryVaried == mode = "codes" /\ pc = "enhanced" /\ IsProductCodeQuery(query)

\* c with its hyphens kept, removed, and replaced by a space, an
\* underscore and a dot
SeparatorForms(c) ==
    { c, Replace(c, "-", <<>>), Replace(c, "-", <<" ">>),
      Replace(c, "-", <<"_">>), Replace(c, "-", <<".">>) }

\* the first segment in upper case and the rest in lower case
FirstUpperRestLower(c) ==
    LET parts == SplitChar(c, "-")
    IN  Upper(parts[1]) \o <<"-">>
            \o Lower(JoinWith(SubSeq(parts, 2, Len(parts)), <<"-">>))

\* the segments in upper and lower case in turn, the first in upper case
AlternatingCase(c) ==
    LET parts == SplitChar(c, "-")
    IN  JoinWith([i \in 1..Len(parts) |->
                     IF i % 2 = 1 THEN Upper(parts[i]) ELSE Lower(parts[i])],
                 <<"-">>)

\* C25: for a code query c of any letter case the variation set holds the
\* fifteen combinations of c as typed, in upper case and in lower case
\* with the hyphens kept, removed, and replaced by a space, an underscore
\* and a dot, and the two positional-case variants.
C25_FifteenCombinations ==
    CodeQueryVaried =>
        /\ \A f \in SeparatorForms(query) : {f, Upper(f), Lower(f)} \subseteq terms
        /\ FirstUpperRestLower(query) \in terms
        /\ AlternatingCase(query) \in terms

\* C25 as the code has it: the set holds c as typed, the upper-case and
\* the lower-case form of each of the five separator forms, and the two
\* positional-case variants, and nothing else; a separator form other
\* than c itself is in the set as typed only when it is one of those.
C25_VariationsAmended ==
    CodeQueryVaried =>
        /\ query \in terms
        /\ \A f \in SeparatorForms(query) : {Upper(f), Lower(f)} \subseteq terms
        /\ FirstUpperRestLower(query) \in terms
        /\ AlternatingCase(query) \in terms
        /\ terms = {query, FirstUpperRestLower(query), AlternatingCase(query)}
                      \cup {Upper(f) : f \in SeparatorForms(query)}
                      \cup {Lower(f) : f \in SeparatorForms(query)}

\* a code typed in mixed case: its form without hyphens is in the set in
\* upper and in lower case and not as typed
C25_Witness ==
    /\ CodeQueryVaried
    /\ query \notin {Upper(query), Lower(query)}
    /\ Upper(Replace(query, "-", <<".">>)) \in terms
    /\ Replace(query, "-", <<>>) \notin terms
    /\ Cardinality(terms) >= 12


---------------------------------------------------------------------------
(* One call of FuzzySearchEnhancer.fuzzy_similarity                        *)

MaxFuzzyLen == 3    \* compared strings: every string up to this length

FuzzyAlphabet == {"a", "b", "B"}

FuzzyStrings == UNION {[1..n -> FuzzyAlphabet] : n \in 0..MaxFuzzyLen}

InitFuzzy ==
    /\ mode = "fuzzy"
    /\ pc = "start"
    /\ query = <<>>
    /\ analysis = BlankAnalysis
    /\ weights = <<0, 0>>
    /\ terms = {}
    /\ rawScores = <<>>
    /\ normScores = <<>>
    /\ graph = <<>>
    /\ points = <<>>
    /\ engine = "none"
    /\ JELLYFISH_AVAILABLE \in BOOLEAN
    /\ previous = <<>>
    /\ fusion = <<>>
    /\ faults = NoFaults
    /\ calls = {}
    /\ indexes = SearchIndexes
    /\ limit = 0
    /\ neo4j_results = <<>>
    /\ qdrant_results = <<>>
    /\ result = <<>>
    /\ outcome = "none"
    /\ compared \in FuzzyStrings \X FuzzyStrings
    /\ similarity = Zero
    /\ issued = <<>>

\* fuzzy_enhancer.fuzzy_similarity(s1, s2)
FuzzySimilarity ==
    /\ mode = "fuzzy"
    /\ pc = "start"
    /\ pc' = "compared"
    /\ similarity' = fuzzy_similarity(compared[1], compared[2], JELLYFISH_AVAILABLE)
    /\ UNCHANGED <<mode, query, analysisVars, codeVars, compared, fulltextVars, normalizeVars, storeVars,
                   engineVars, searchVars, fusionVars>>

NextFuzzy == FuzzySimilarity

SpecFuzzy == InitFuzzy /\ [][NextFuzzy]_vars

---------------------------------------------------------------------------
(* Properties of fuzzy_similarity (checked under SpecFuzzy)                *)

Compared == mode = "fuzzy" /\ pc = "compared"

\* one of the lower-cased strings is a substring of the other
OneInsideTheOther ==
    \/ Contains(Lower(compared[2]), Lower(compared[1]))
    \/ Contains(Lower(compared[1]), Lower(compared[2]))

\* C26: the similarity of two strings is within [0, 1], and it is at
\* least 0.7 when one lower-cased string is a substring of the other,
\* with jellyfish and without it.
C26_SubstringFloor ==
    Compared =>
        /\ RatLeq(Zero, similarity) /\ RatLeq(similarity, One)
        /\ OneInsideTheOther => RatLeq(Rat(7, 10), similarity)


---------------------------------------------------------------------------
(* Properties of the post-processing bonus (checked under SpecSearch)      *)

EnhancedSearched == Searched /\ engine = "enhanced_hybrid_search"

\* the weighted score of a returned candidate before post-processing
WeightedScore(r) ==
    BothShares(Weight(weights[1]), r.neo4j_score, Weight(weights[2]), r.qdrant_score)

\* the words of a string that are not stop words
ContentWords(s) == SplitWords(Lower(s)) \ BasicStopwords

\* the fraction of the query's words that the name has
WordOverlap(q, name) ==
    IF ContentWords(q) = {} THEN Zero
    ELSE Rat(Cardinality(ContentWords(q) \cap ContentWords(name)),
             Cardinality(ContentWords(q)))

\* similarity x 0.3 when the similarity is above 0.6
SimilarityBonus(sim) ==
    IF RatLess(Rat(6, 10), sim) THEN RatMul(sim, Rat(3, 10)) ELSE Zero

\* overlap x 0.2 when there is an overlap
OverlapBonus(overlap) ==
    IF RatLess(Zero, overlap) THEN RatMul(overlap, Rat(2, 10)) ELSE Zero

\* C27: the results of a product code query carry no post-processing
\* bonus; for any other query the final score of a candidate is its
\* weighted score plus similarity x 0.3 exactly when the query/name
\* similarity is above 0.6, plus overlap x 0.2 exactly when the word
\* overlap is above 0; it is never below the weighted score, and a
\* candidate with an empty name receives no bonus.
C27_PostProcessingBonus ==
    EnhancedSearched =>
        \A i \in DOMAIN result :
            LET r   == result[i]
                sim == fuzzy_similarity(Lower(query), Lower(r.name), JELLYFISH_AVAILABLE)
            IN  IF IsProductCodeQuery(query)
                THEN r.fuzzy_bonus = Zero /\ r.final_score = r.neo4j_score
                ELSE /\ r.final_score =
                            RatAdd(WeightedScore(r),
                                   RatAdd(SimilarityBonus(sim),
                                          OverlapBonus(WordOverlap(query, r.name))))
                     /\ RatLeq(WeightedScore(r), r.final_score)
                     /\ r.name = <<>> =>
                            r.fuzzy_bonus = Zero /\ r.final_score = WeightedScore(r)


---------------------------------------------------------------------------
(* The full-text step of one search: ProductSearchSystem._search_fulltext  *)
(* and the full-text block of EnhancedHybridSearch.search_neo4j_enhanced   *)

NonEmpty(s) == s # <<>>

\* query.split()
Words(q) == SelectSeq(SplitChar(q, " "), NonEmpty)

\* each word followed by the mark
Marked(q, mark) == JoinWith([i \in 1..Len(Words(q)) |-> Words(q)[i] \o mark], <<" ">>)

\* query_variations of _search_fulltext
QueryVariations(q) ==
    << q,
       <<"\"">> \o q \o <<"\"">>,
       JoinWith(Words(q), <<" ", "O", "R", " ">>),
       JoinWith(Words(q), <<" ", "A", "N", "D", " ">>),
       Marked(q, <<"~">>),
       Marked(q, <<"~", "2">>) >>

\* ' '.join(terms) of a set of terms
RECURSIVE JoinedTerms(_)
JoinedTerms(S) ==
    IF S = {} THEN <<>>
    ELSE LET t == CHOOSE x \in S : TRUE
         IN  IF S = {t} THEN t ELSE t \o <<" ">> \o JoinedTerms(S \ {t})

\* the products list of _search_fulltext after the records of one result
FulltextProducts(rows) ==
    [i \in DOMAIN rows |->
        [id    |-> rows[i].product_id,
         name  |-> ProductName[rows[i].product_id],
         score |-> rows[i].score]]

\* one full-text query as the step sees it
Issued(search_term, raised, rows) ==
    [search_term |-> search_term, raised |-> raised, rows |-> Len(rows)]

FulltextQueries == {crane, cabl \o <<" ">> \o crane}

InitFulltext ==
    /\ mode = "fulltext"
    /\ pc = "start"
    /\ query \in FulltextQueries
    /\ analysis = BlankAnalysis
    /\ weights = <<0, 0>>
    /\ terms = {}
    /\ rawScores = <<>>
    /\ normScores = <<>>
    /\ graph \in [Products -> HistoryGraphAnswers]
    /\ points = <<>>
    /\ engine \in {"ProductSearchSystem", "enhanced_hybrid_search"}
    /\ JELLYFISH_AVAILABLE = FALSE
    /\ previous = <<>>
    /\ fusion = <<>>
    /\ faults = NoFaults
    /\ calls = {}
    /\ indexes = SearchIndexes
    /\ limit \in 1..MaxLimit
    /\ neo4j_results = <<>>
    /\ qdrant_results = <<>>
    /\ result = <<>>
    /\ outcome = "none"
    /\ compared = <<>>
    /\ similarity = Zero
    /\ issued = <<>>

\* one turn of the loop of _search_fulltext: the next variant is run; a
\* query that raises leaves the products read before it and the loop goes on
QueryNextVariant ==
    /\ mode = "fulltext"
    /\ engine = "ProductSearchSystem"
    /\ pc \in {"start", "looping"}
    /\ neo4j_results = <<>>
    /\ Len(issued) < Len(QueryVariations(query))
    /\ \E rows \in {<<>>} \cup Answers(FulltextRows(graph), 2 * limit), failure \in Failures :
          LET read == Handled(rows, failure)
          IN  /\ issued' = Append(issued,
                               Issued(QueryVariations(query)[Len(issued) + 1],
                                      failure.fails, read))
              /\ neo4j_results' = FulltextProducts(read)
    /\ pc' = "looping"
    /\ UNCHANGED <<mode, query, analysisVars, codeVars, fuzzyVars, normalizeVars, storeVars,
                   engineVars, limit, qdrant_results, result, outcome, previous, faults,
                   calls, fusionVars>>

\* the loop of _search_fulltext is left: products were found or no variant
\* is left
ReturnProducts ==
    /\ mode = "fulltext"
    /\ engine = "ProductSearchSystem"
    /\ pc \in {"start", "looping"}
    /\ neo4j_results # <<>> \/ Len(issued) = Len(QueryVariations(query))
    /\ result' = Slice(neo4j_results, 2 * limit)
    /\ outcome' = "returned"
    /\ pc' = "returned"
    /\ UNCHANGED <<mode, query, analysisVars, codeVars, fuzzyVars, fulltextVars, normalizeVars,
                   storeVars, engineVars, limit, neo4j_results, qdrant_results, previous,
                   faults, calls, fusionVars>>

\* the full-text try block of search_neo4j_enhanced: the query as typed
\* and, when the query has corrected terms, the corrected terms
EnhancedFulltextSearch ==
    /\ mode = "fulltext"
    /\ engine = "enhanced_hybrid_search"
    /\ pc = "start"
    /\ \E first  \in Answers(FulltextRows(graph), EnhancedLimit),
          second \in Answers(FulltextRows(graph), EnhancedLimit),
          raised \in {0, 1, 2} :
          LET corrected_query == JoinedTerms(CorrectedTerms(query))
              q1 == Issued(query, raised = 1, IF raised = 1 THEN <<>> ELSE first)
              q2 == Issued(corrected_query, raised = 2, IF raised = 2 THEN <<>> ELSE second)
          IN  IF raised = 1
              THEN /\ issued' = <<q1>>
                   /\ neo4j_results' = <<>>
              ELSE IF CorrectedTerms(query) # {}
              THEN /\ issued' = <<q1, q2>>
                   /\ neo4j_results' =
                          search_neo4j_enhanced(<<>>, first,
                                                IF raised = 2 THEN <<>> ELSE second, <<>>)
              ELSE /\ issued' = <<q1>>
                   /\ neo4j_results' = search_neo4j_enhanced(<<>>, first, <<>>, <<>>)
    /\ result' = neo4j_results'
    /\ outcome' = "returned"
    /\ pc' = "returned"
    /\ UNCHANGED <<mode, query, analysisVars, codeVars, fuzzyVars, normalizeVars, storeVars,
                   engineVars, limit, qdrant_results, previous, faults, calls, fusionVars>>

NextFulltext == QueryNextVariant \/ ReturnProducts \/ EnhancedFulltextSearch

SpecFulltext == InitFulltext /\ [][NextFulltext]_vars

---------------------------------------------------------------------------
(* Properties of the full-text step (checked under SpecFulltext)           *)

\* every word of the search term carries the fuzzy mark
FuzzyMarked(search_term) ==
    \A i \in 1..Len(Words(search_term)) : Contains(Words(search_term)[i], <<"~">>)

\* C28: one search issues the full-text query at most twice, and a second
\* query is issued only when the first returned no rows and then has
\* every token marked fuzzy.
C28_AtMostOneFuzzyRetry ==
    mode = "fulltext" =>
        /\ Len(issued) <= 2
        /\ Len(issued) = 2 =>
              issued[1].rows = 0 /\ FuzzyMarked(issued[2].search_term)


---------------------------------------------------------------------------
(* Properties of malformed records and of the lexical ranks (checked      *)
(* under SpecSearch)                                                       *)

\* C29: a point of the vector store whose payload has no product_id is
\* skipped: the semantic result has no entry for it and the returned list
\* has no candidate for it.
C29_MalformedRecordSkipped ==
    Searched =>
        /\ UnknownId \notin Ids(qdrant_results)
        /\ UnknownId \notin Ids(result)

\* C30: the lexical rank of hybrid_search follows the merged lexical
\* score: of two candidates of the lexical result, the one with the
\* strictly higher merged score has the strictly smaller rank.
C30_RankFollowsMergedScore ==
    Searched /\ engine = "hybrid_search" =>
        \A i, j \in DOMAIN neo4j_results :
            RatLess(neo4j_results[j].neo4j_score, neo4j_results[i].neo4j_score) => i < j

===========================================================================
